---- MODULE Spec2Model ----
(***************************************************************************)
(* A model of the UDS deduplication index of src/utils/uds/index.c: the    *)
(* zone request path (search_index_zone, remove_from_index_zone, the       *)
(* dispatcher), the chapter window (advance_active_chapters) and the       *)
(* load / replay / rebuild state machine of make_index.                    *)
(*                                                                         *)
(* index.c calls into the master index, the index zone, the open chapter,  *)
(* the sparse cache, the geometry and the volume.  Their code is not part  *)
(* of src/; they are modelled from their contracts in spec.md.             *)
(***************************************************************************)
EXTENDS Integers, FiniteSets, Sequences, TLC

(***************************************************************************)
(* Bounds of the model.                                                    *)
(***************************************************************************)
\* geometry->chapters_per_volume of the modelled configuration
ChaptersPerVolume == 3
\* geometry->sparse_chapters_per_volume of the sparse configuration
SparseChaptersPerVolume == 1
\* number of distinct chunk names
NumNames == 3
\* cap on newest_virtual_chapter (the counter is unbounded in the code)
MaxVcn == 3
\* number of chapter indexes the sparse cache holds
SparseCacheCapacity == 1
\* cap on the number of requests that change the index
MaxRequests == 2
\* scaled width of uint64_t: UINT64_MAX is 2^Uint64Bits - 1
Uint64Bits == 5

UintBits == 4

MaxRecords == 2

MaxFaults == 1
\* records on the volume of an index whose replay is run twice
MaxReplayRecords == 3
\* geometry->index_pages_per_chapter
IndexPagesPerChapter == 2
\* geometry->delta_lists_per_chapter: the delta lists of a chapter index
DeltaListsPerChapter == 3
\* index->zone_count of the indexes a dispatcher is looked at in
MaxZones == 2
\* the largest admin_completion->phase a resume callback is looked at with
MaxPhase == 9

(***************************************************************************)
(* Chunk names.  A name has a master-index address (its "hint") and a      *)
(* sample bit pattern; both are bit slices of the name.  Two names share   *)
(* an address when their slices agree.  Hooks and non-hooks are indexed    *)
(* separately, so names that share an address are in the same sample class.*)
(***************************************************************************)
Names == 0 .. (NumNames - 1)
NoName == -1

Hint(name) == name \div 2

isMasterIndexSample(name) == (Hint(name) % 2) = 0

(***************************************************************************)
(* Geometry.                                                               *)
(***************************************************************************)
is_sparse(geom) == geom.sparse_chapters_per_volume > 0

dense_chapters_per_volume(geom) ==
    geom.chapters_per_volume - geom.sparse_chapters_per_volume

map_to_physical_chapter(geom, vcn) == vcn % geom.chapters_per_volume

are_same_physical_chapter(geom, c1, c2) ==
    (c1 % geom.chapters_per_volume) = (c2 % geom.chapters_per_volume)

has_sparse_chapters(geom, oldest, newest) ==
    /\ is_sparse(geom)
    /\ (newest - oldest + 1) > dense_chapters_per_volume(geom)

is_chapter_sparse(geom, oldest, newest, vcn) ==
    /\ has_sparse_chapters(geom, oldest, newest)
    /\ (vcn + dense_chapters_per_volume(geom)) <= newest

DenseGeometry ==
    [chapters_per_volume |-> ChaptersPerVolume, sparse_chapters_per_volume |-> 0]

SparseGeometry ==
    [chapters_per_volume |-> ChaptersPerVolume,
     sparse_chapters_per_volume |-> SparseChaptersPerVolume]

(***************************************************************************)
(* Locations, actions and result codes.                                    *)
(***************************************************************************)
LOC_UNAVAILABLE == "LOC_UNAVAILABLE"
LOC_IN_OPEN_CHAPTER == "LOC_IN_OPEN_CHAPTER"
LOC_IN_DENSE == "LOC_IN_DENSE"
LOC_IN_SPARSE == "LOC_IN_SPARSE"

REQUEST_INDEX == "REQUEST_INDEX"
REQUEST_UPDATE == "REQUEST_UPDATE"
REQUEST_QUERY == "REQUEST_QUERY"
REQUEST_DELETE == "REQUEST_DELETE"
RequestActions == {REQUEST_INDEX, REQUEST_UPDATE, REQUEST_QUERY, REQUEST_DELETE}

UDS_SUCCESS == "UDS_SUCCESS"
UDS_OVERFLOW == "UDS_OVERFLOW"
UDS_DUPLICATE_NAME == "UDS_DUPLICATE_NAME"
UDS_BAD_STATE == "UDS_BAD_STATE"
UDS_ASSERTION_FAILED == "UDS_ASSERTION_FAILED"

\* what a master-index mutation (set_chapter, put) may answer
MasterIndexOutcomes == {UDS_SUCCESS, UDS_OVERFLOW, UDS_BAD_STATE}

ENOMEM == "ENOMEM"
UDS_NO_INDEX == "UDS_NO_INDEX"
UDS_INDEX_NOT_SAVED_CLEANLY == "UDS_INDEX_NOT_SAVED_CLEANLY"
UDS_CORRUPT_COMPONENT == "UDS_CORRUPT_COMPONENT"
UDS_CORRUPT_DATA == "UDS_CORRUPT_DATA"
UDS_SHUTTINGDOWN == "UDS_SHUTTINGDOWN"

LOAD_UNDEFINED == "LOAD_UNDEFINED"
LOAD_CREATE == "LOAD_CREATE"
LOAD_LOAD == "LOAD_LOAD"
LOAD_REBUILD == "LOAD_REBUILD"
LOAD_EMPTY == "LOAD_EMPTY"
LOAD_REPLAY == "LOAD_REPLAY"

INDEX_OPENING == "INDEX_OPENING"
INDEX_SUSPENDING == "INDEX_SUSPENDING"
INDEX_SUSPENDED == "INDEX_SUSPENDED"
INDEX_READY == "INDEX_READY"
INDEX_FREEING == "INDEX_FREEING"

LOOKUP_NORMAL == "LOOKUP_NORMAL"
LOOKUP_FOR_REBUILD == "LOOKUP_FOR_REBUILD"

(***************************************************************************)
(* The master index: a set of entries keyed by address.  An address holds  *)
(* at most one non-collision entry (it names no chunk: it is a hint) and   *)
(* any number of collision entries, each carrying its chunk name.          *)
(***************************************************************************)
Entry(hint, chapter, collision, name) ==
    [hint |-> hint, chapter |-> chapter, collision |-> collision, name |-> name]

NotFoundRecord(name) ==
    [isFound |-> FALSE, isCollision |-> FALSE, virtualChapter |-> 0, name |-> name]

getMasterIndexRecord(entries, name) ==
    LET coll == {e \in entries : e.collision /\ e.name = name}
        plain == {e \in entries : ~e.collision /\ e.hint = Hint(name)}
    IN  IF coll # {}
        THEN LET e == CHOOSE x \in coll : TRUE
             IN  [isFound |-> TRUE, isCollision |-> TRUE,
                  virtualChapter |-> e.chapter, name |-> name]
        ELSE IF plain # {}
        THEN LET e == CHOOSE x \in plain : TRUE
             IN  [isFound |-> TRUE, isCollision |-> FALSE,
                  virtualChapter |-> e.chapter, name |-> name]
        ELSE NotFoundRecord(name)

\* the entry a found record is the handle of
RecordEntry(record) ==
    Entry(Hint(record.name), record.virtualChapter, record.isCollision,
          IF record.isCollision THEN record.name ELSE NoName)

setMasterIndexRecordChapter(entries, record, chapter) ==
    (entries \ {RecordEntry(record)})
        \cup {[RecordEntry(record) EXCEPT !.chapter = chapter]}

\* put on a found (non-collision) record adds a collision entry for the name;
\* put on a record that was not found adds the address's non-collision entry
putMasterIndexRecord(entries, record, chapter) ==
    IF record.isFound
    THEN entries \cup {Entry(Hint(record.name), chapter, TRUE, record.name)}
    ELSE entries \cup {Entry(Hint(record.name), chapter, FALSE, NoName)}

\* removing an address's non-collision entry turns its next collision entry,
\* if any, into the non-collision entry
removeMasterIndexRecord(entries, record) ==
    LET rest == entries \ {RecordEntry(record)}
        coll == {e \in rest : e.collision /\ e.hint = Hint(record.name)}
    IN  IF record.isCollision \/ coll = {}
        THEN rest
        ELSE LET next == CHOOSE e \in coll : \A o \in coll : e.name <= o.name
             IN  (rest \ {next})
                     \cup {Entry(next.hint, next.chapter, FALSE, NoName)}

\* the chapters a sub-index keeps: all of the volume for hooks, the dense
\* chapters for the other names
IndexedChapters(geom, hint) ==
    IF is_sparse(geom) /\ (hint % 2) # 0
    THEN dense_chapters_per_volume(geom)
    ELSE geom.chapters_per_volume

\* declare vcn the open chapter: entries of chapters older than the window
\* are reaped, and so are entries of vcn and later when moving backwards
setMasterIndexOpenChapter(geom, entries, vcn) ==
    {e \in entries :
        /\ e.chapter < vcn
        /\ e.chapter + IndexedChapters(geom, e.hint) > vcn}

(***************************************************************************)
(* The state.                                                              *)
(***************************************************************************)
VARIABLES
    geometry,                \* index->volume->geometry
    zone_count,              \* index->zone_count
    master_index,            \* the entries of index->master_index
    master_index_open,       \* the open chapter the master index was told
    oldest_virtual_chapter,  \* index->oldest_virtual_chapter
    newest_virtual_chapter,  \* index->newest_virtual_chapter
    zone,                    \* the zone's oldest/newestVirtualChapter
    openChapter,             \* zone->openChapter: the names it holds
    volume,                  \* physical chapter -> the names recorded in it
    sparseCache,             \* the cached sparse chapters, most recent first
    requests_changed         \* how many requests have changed the index

indexVars ==
    <<geometry, zone_count, master_index, master_index_open,
      oldest_virtual_chapter, newest_virtual_chapter, zone, openChapter,
      volume, sparseCache, requests_changed>>

VARIABLES
    pc,                      \* where make_index is, "ready" once it returned
    load_type,               \* make_index's load_type argument
    load_context,            \* index->load_context->status, "NULL" without one
    lookupMode,              \* index->volume->lookupMode
    loaded_type,             \* index->loaded_type
    result,                  \* the result of the call in progress
    last_checkpoint,         \* index->last_checkpoint
    has_saved_open_chapter,  \* index->has_saved_open_chapter
    replay,                  \* replay_volume's locals and who called it
    observed,                \* what make_index did so far
    boundaries,              \* what the volume reports as its boundaries
    faults,                  \* how many failures the environment answered
    mutex,                   \* who holds index->load_context->mutex
    waiter                   \* the thread that asked for a suspend, waiting
                             \* on index->load_context->cond

loadVars ==
    <<pc, load_type, load_context, lookupMode, loaded_type, result,
      last_checkpoint, has_saved_open_chapter, replay, observed,
      boundaries, faults, mutex, waiter>>

VARIABLES
    prev_checkpoint,         \* index->prev_checkpoint
    saved                    \* the last call of save_index: its result and
                             \* what it found

saveVars == <<prev_checkpoint, saved>>

VARIABLES
    index_pages,             \* the index pages of a chapter as the volume
                             \* has them: their lowest and highest lists
    indexPageMap             \* index->volume->indexPageMap

pageVars == <<index_pages, indexPageMap>>

VARIABLES
    admin_pc,                \* where the resume operation is: "idle", at a
                             \* "callback" that is to run, waiting for a
                             \* "sub_task", at a "completed" sub-task, or
                             \* "returned"
    phase,                   \* admin_completion->phase
    callback_thread_id,      \* the sub-task completion's callback thread
    admin_state,             \* vdo->admin_state
    vdo_state,               \* get_vdo_state(vdo)
    super_block,             \* the state the super block holds, and how
                             \* often the resume has saved it
    sub_task,                \* what the sub-task completion was handed to
    completion_result,       \* completion->result of the sub-task
    admin_result,            \* admin_completion->completion.result
    phases_run,              \* the phases resume_callback has run, each
                             \* with the thread it ran on
    resumed                  \* the components that have been resumed

resumeVars ==
    <<admin_pc, phase, callback_thread_id, admin_state, vdo_state,
      super_block, sub_task, completion_result, admin_result, phases_run,
      resumed>>

UINT64_MAX == (2 ^ Uint64Bits) - 1

UINT_MAX == (2 ^ UintBits) - 1

NO_LAST_CHECKPOINT == UINT_MAX

NoReplay ==
    [from_vcn |-> 0, upto_vcn |-> 0, vcn |-> 0,
     old_lookup_mode |-> LOOKUP_NORMAL, caller |-> "none"]

NoBoundaries ==
    [result |-> "unknown", lowest |-> 0, highest |-> 0, is_empty |-> FALSE]

NothingSaved ==
    [result |-> "none", last_checkpoint |-> 0, has_saved_open_chapter |-> FALSE,
     open_chapter_number |-> 0]

NothingObserved ==
    [replay_required |-> FALSE, load_result |-> "none",
     rebuild_attempted |-> FALSE,
     loaded_oldest |-> 0, loaded_newest |-> 0, suspended |-> FALSE]

(***************************************************************************)
(* The resume of a VDO: the phases of the admin operation, the states of   *)
(* the VDO and of its admin state, and the threads of its zones.           *)
(***************************************************************************)
RESUME_PHASE_START == 0
RESUME_PHASE_ALLOW_READ_ONLY_MODE == 1
RESUME_PHASE_DEPOT == 2
RESUME_PHASE_JOURNAL == 3
RESUME_PHASE_BLOCK_MAP == 4
RESUME_PHASE_LOGICAL_ZONES == 5
RESUME_PHASE_PACKER == 6
RESUME_PHASE_END == 7

VDO_SUCCESS == UDS_SUCCESS
VDO_READ_ONLY == "VDO_READ_ONLY"
VDO_INVALID_ADMIN_STATE == "VDO_INVALID_ADMIN_STATE"

VDO_NEW == "VDO_NEW"
VDO_CLEAN == "VDO_CLEAN"
VDO_DIRTY == "VDO_DIRTY"
VDO_READ_ONLY_MODE == "VDO_READ_ONLY_MODE"
VDO_FORCE_REBUILD == "VDO_FORCE_REBUILD"
VDO_RECOVERING == "VDO_RECOVERING"
VDO_REPLAYING == "VDO_REPLAYING"
VDO_REBUILD_FOR_UPGRADE == "VDO_REBUILD_FOR_UPGRADE"
VdoStates ==
    {VDO_NEW, VDO_CLEAN, VDO_DIRTY, VDO_READ_ONLY_MODE, VDO_FORCE_REBUILD,
     VDO_RECOVERING, VDO_REPLAYING, VDO_REBUILD_FOR_UPGRADE}

ADMIN_STATE_NORMAL_OPERATION == "ADMIN_STATE_NORMAL_OPERATION"
ADMIN_STATE_SUSPENDED == "ADMIN_STATE_SUSPENDED"
ADMIN_STATE_RESUMING == "ADMIN_STATE_RESUMING"

\* the threads of the thread configuration
AdminThread == "admin_thread"
JournalZoneThread == "journal_zone_thread"
PackerZoneThread == "packer_zone_thread"

\* no resume is under way: the VDO is suspended, its super block clean
NoResume ==
    /\ admin_pc = "idle"
    /\ phase = RESUME_PHASE_START
    /\ callback_thread_id = AdminThread
    /\ admin_state = ADMIN_STATE_SUSPENDED
    /\ vdo_state = VDO_CLEAN
    /\ super_block = [state |-> VDO_CLEAN, saves |-> 0]
    /\ sub_task = "none"
    /\ completion_result = VDO_SUCCESS
    /\ admin_result = VDO_SUCCESS
    /\ phases_run = <<>>
    /\ resumed = {}

PhysicalChapters == 0 .. (ChaptersPerVolume - 1)

(***************************************************************************)
(* The index pages of a chapter and the index page map.  An index page     *)
(* covers the delta lists lowest_list_number .. highest_list_number; the   *)
(* map records, for each chapter and index page, the highest list of the   *)
(* page, and the virtual chapter of its last update.                       *)
(***************************************************************************)
IndexPage ==
    [lowest_list_number : 0 .. (DeltaListsPerChapter - 1),
     highest_list_number : 0 .. (DeltaListsPerChapter - 1)]

IndexPageLayouts == [1 .. IndexPagesPerChapter -> IndexPage]

\* the pages as the chapter writer lays them out: one list a page, the last
\* page taking the remaining lists
CanonicalIndexPages ==
    [k \in 1 .. IndexPagesPerChapter |->
        [lowest_list_number |-> k - 1,
         highest_list_number |-> IF k = IndexPagesPerChapter
                                 THEN DeltaListsPerChapter - 1 ELSE k - 1]]

\* a map that was never updated
NoIndexPageMap ==
    [last_update |-> 0,
     entries |-> [c \in PhysicalChapters |->
                     [k \in 1 .. IndexPagesPerChapter |-> 0]]]

\* which call fails for which index page: getPage or update_index_page_map
NoPageError == [at |-> "none", page |-> 0, outcome |-> UDS_SUCCESS]

PageErrors ==
    {NoPageError}
        \cup {[at |-> a, page |-> k, outcome |-> UDS_BAD_STATE] :
                 a \in {"getPage", "update_index_page_map"},
                 k \in 1 .. IndexPagesPerChapter}

PageMapReturn(code, updated) == [result |-> code, updated |-> updated]

\* mutant: the list numbers of the pages are not compared
RECURSIVE rebuild_index_page_map_unchecked(_, _, _, _, _)
rebuild_index_page_map_unchecked(pages, error, index_page_number, expected_list_number, updated) ==
    IF index_page_number > IndexPagesPerChapter
    THEN PageMapReturn(UDS_SUCCESS, updated)
    ELSE IF error.page = index_page_number
    THEN PageMapReturn(error.outcome, updated)
    ELSE rebuild_index_page_map_unchecked(pages, error, index_page_number + 1,
             (pages[index_page_number].highest_list_number + 1)
                 % (2 ^ UintBits),
             Append(updated, pages[index_page_number].highest_list_number))

\* lines 624-663 from index page index_page_number on (counted from 1):
\* the page is read, its lowest list compared with the expected one and
\* its highest list recorded in the map.  `updated` is the highest lists
\* recorded so far
RECURSIVE rebuild_index_page_map_from(_, _, _, _, _)
rebuild_index_page_map_from(pages, error, index_page_number, expected_list_number, updated) ==
    IF index_page_number > IndexPagesPerChapter
    THEN PageMapReturn(UDS_SUCCESS, updated)
    ELSE IF error.at = "getPage" /\ error.page = index_page_number
    THEN PageMapReturn(error.outcome, updated)
    ELSE IF pages[index_page_number].lowest_list_number # expected_list_number
    THEN PageMapReturn(UDS_CORRUPT_DATA, updated)
    ELSE IF error.at = "update_index_page_map" /\ error.page = index_page_number
    THEN PageMapReturn(error.outcome, updated)
    ELSE rebuild_index_page_map_from(pages, error, index_page_number + 1,
             (pages[index_page_number].highest_list_number + 1)
                 % (2 ^ UintBits),
             Append(updated, pages[index_page_number].highest_list_number))

\* lines 618-664
rebuild_index_page_map(pages, error) ==
    rebuild_index_page_map_from(pages, error, 1, 0, <<>>)

\* update_index_page_map for the pages that were recorded
update_index_page_map(map, vcn, chapter, updated) ==
    IF updated = <<>>
    THEN map
    ELSE [last_update |-> vcn,
          entries |-> [map.entries EXCEPT ![chapter] =
                          [k \in 1 .. IndexPagesPerChapter |->
                              IF k <= Len(updated) THEN updated[k] ELSE @[k]]]]

\* the pages of a chapter one of whose index pages was damaged
DamagedIndexPages ==
    {pages \in IndexPageLayouts :
        Cardinality({k \in 1 .. IndexPagesPerChapter :
                        pages[k] # CanonicalIndexPages[k]}) = 1}

\* the ways rebuild_index_page_map fails on a chapter the chapter writer
\* wrote: on a damaged page, or on a page that cannot be read or recorded
IndexPageFailures ==
    {r \in {rebuild_index_page_map(pages, error) :
               pages \in DamagedIndexPages \cup {CanonicalIndexPages},
               error \in PageErrors} :
        r.result # UDS_SUCCESS}

(***************************************************************************)
(* The index zone: what a request sees of the zone it runs on.             *)
(***************************************************************************)
ZoneView ==
    [geometry |-> geometry, zone_count |-> zone_count,
     entries |-> master_index, openChapter |-> openChapter,
     volume |-> volume, sparseCache |-> sparseCache,
     oldestVirtualChapter |-> zone.oldestVirtualChapter,
     newestVirtualChapter |-> zone.newestVirtualChapter]

isZoneChapterSparse(z, virtualChapter) ==
    is_chapter_sparse(z.geometry, z.oldestVirtualChapter,
                      z.newestVirtualChapter, virtualChapter)

\* is the name recorded in the closed chapter, as the volume has it
searchVolumePageCache(geom, vol, name, virtualChapter) ==
    name \in vol[map_to_physical_chapter(geom, virtualChapter)]

\* resolve a master-index hint: the open chapter for the newest chapter,
\* the volume (or the cached sparse chapter index) for a closed one
getRecordFromZone(z, name, virtualChapter) ==
    IF virtualChapter = z.newestVirtualChapter
    THEN name \in z.openChapter
    ELSE searchVolumePageCache(z.geometry, z.volume, name, virtualChapter)

computeIndexRegion(z, virtualChapter) ==
    IF virtualChapter = z.newestVirtualChapter
    THEN LOC_IN_OPEN_CHAPTER
    ELSE IF isZoneChapterSparse(z, virtualChapter)
    THEN LOC_IN_SPARSE
    ELSE LOC_IN_DENSE

SeqRange(s) == {s[i] : i \in 1 .. Len(s)}

\* search of the sparse cache with the UINT64_MAX ("all chapters") sentinel
\* or for one chapter; cached chapters older than the zone's oldest are skipped
searchSparseCacheInZone(z, name, virtualChapter) ==
    \E c \in SeqRange(z.sparseCache) :
        /\ c >= z.oldestVirtualChapter
        /\ (virtualChapter = UINT64_MAX) \/ (virtualChapter = c)
        /\ searchVolumePageCache(z.geometry, z.volume, name, c)

\* the barrier makes the chapter resident, evicting the least recently used
executeSparseCacheBarrierMessage(cache, virtualChapter) ==
    LET others == SelectSeq(cache, LAMBDA c : c # virtualChapter)
    IN  SubSeq(<<virtualChapter>> \o others, 1,
               IF Len(others) + 1 <= SparseCacheCapacity
               THEN Len(others) + 1 ELSE SparseCacheCapacity)

\* lookup without mutation: is the name a hook with a master-index record
lookupMasterIndexName(entries, name) ==
    LET record == getMasterIndexRecord(entries, name)
    IN  [inSampledChapter |-> isMasterIndexSample(name) /\ record.isFound,
         virtualChapter |-> record.virtualChapter]

(***************************************************************************)
(* search_index_zone.  `outcome` is what the master index answers if the   *)
(* request reaches set_chapter or put.  The value is the request's effect: *)
(* the entries and open chapter after it, request->location, the result,   *)
(* and which master-index mutation ran with what answer.                   *)
(***************************************************************************)
SearchReturn(z, record, found, location, code) ==
    [entries |-> z.entries, openChapter |-> z.openChapter,
     location |-> location, result |-> code, record |-> record,
     found |-> found, mutation |-> "none", mutation_result |-> "none"]

\* mutant: the record is updated but the name is not put in the open chapter
SearchFinish_no_insert(z, name, record, found, location, mutation, outcome, entries) ==
    IF outcome = UDS_OVERFLOW
    THEN [SearchReturn(z, record, found, location, UDS_SUCCESS)
             EXCEPT !.mutation = mutation, !.mutation_result = outcome]
    ELSE IF outcome # UDS_SUCCESS
    THEN [SearchReturn(z, record, found, location, outcome)
             EXCEPT !.mutation = mutation, !.mutation_result = outcome]
    ELSE [SearchReturn(z, record, found, location, UDS_SUCCESS)
             EXCEPT !.entries = entries, !.mutation = mutation,
                    !.mutation_result = IF mutation = "none" THEN "none"
                                        ELSE outcome]

\* mutant: an OVERFLOW is swallowed but the name still goes to the open chapter
SearchFinish_overflow_inserts(z, name, record, found, location, mutation, outcome, entries) ==
    IF (outcome # UDS_SUCCESS) /\ (outcome # UDS_OVERFLOW)
    THEN [SearchReturn(z, record, found, location, outcome)
             EXCEPT !.mutation = mutation, !.mutation_result = outcome]
    ELSE [SearchReturn(z, record, found, location, UDS_SUCCESS)
             EXCEPT !.entries = IF outcome = UDS_OVERFLOW THEN z.entries
                                ELSE entries,
                    !.openChapter = z.openChapter \cup {name},
                    !.mutation = mutation,
                    !.mutation_result = IF mutation = "none" THEN "none"
                                        ELSE outcome]

\* mutant: on OVERFLOW the record is kept though the name is not inserted
SearchFinish_overflow_recorded(z, name, record, found, location, mutation, outcome, entries) ==
    IF outcome = UDS_OVERFLOW
    THEN [SearchReturn(z, record, found, location, UDS_SUCCESS)
             EXCEPT !.entries = entries, !.mutation = mutation,
                    !.mutation_result = outcome]
    ELSE IF outcome # UDS_SUCCESS
    THEN [SearchReturn(z, record, found, location, outcome)
             EXCEPT !.mutation = mutation, !.mutation_result = outcome]
    ELSE [SearchReturn(z, record, found, location, UDS_SUCCESS)
             EXCEPT !.entries = entries,
                    !.openChapter = z.openChapter \cup {name},
                    !.mutation = mutation,
                    !.mutation_result = IF mutation = "none" THEN "none"
                                        ELSE outcome]

\* lines 438-460: the tail of search_index_zone after set_chapter / put
SearchFinish(z, name, record, found, location, mutation, outcome, entries) ==
    IF outcome = UDS_OVERFLOW
    THEN [SearchReturn(z, record, found, location, UDS_SUCCESS)
             EXCEPT !.mutation = mutation, !.mutation_result = outcome]
    ELSE IF outcome # UDS_SUCCESS
    THEN [SearchReturn(z, record, found, location, outcome)
             EXCEPT !.mutation = mutation, !.mutation_result = outcome]
    ELSE [SearchReturn(z, record, found, location, UDS_SUCCESS)
             EXCEPT !.entries = entries,
                    !.openChapter = z.openChapter \cup {name},
                    !.mutation = mutation,
                    !.mutation_result = IF mutation = "none" THEN "none"
                                        ELSE outcome]

\* mutant: an overflow record is updated by a query with update
QueryWithNothingToUpdate_no_overflow(request, overflow_record) ==
    /\ request.action = REQUEST_QUERY
    /\ ~request.update

\* lines 384-385: a query without update, or with nothing to update
QueryWithNothingToUpdate(request, overflow_record) ==
    /\ request.action = REQUEST_QUERY
    /\ ~request.update \/ overflow_record

\* lines 422-423: a query without update, or for a new record
QueryOfNewRecord(request, found) ==
    /\ request.action = REQUEST_QUERY
    /\ ~found \/ ~request.update

search_index_zone(z, request, outcome) ==
    LET name == request.chunkName
        record == getMasterIndexRecord(z.entries, name)
        found == record.isFound
                 /\ getRecordFromZone(z, name, record.virtualChapter)
        location == IF found
                    THEN computeIndexRegion(z, record.virtualChapter)
                    ELSE LOC_UNAVAILABLE
        overflow_record == record.isFound /\ record.isCollision /\ ~found
        chapter == z.newestVirtualChapter
    IN  IF found \/ overflow_record
        THEN IF QueryWithNothingToUpdate(request, overflow_record)
             THEN SearchReturn(z, record, found, location, UDS_SUCCESS)
             ELSE IF record.virtualChapter # chapter
             THEN SearchFinish(z, name, record, found, location, "set_chapter",
                     outcome,
                     setMasterIndexRecordChapter(z.entries, record, chapter))
             ELSE IF request.action # REQUEST_UPDATE
             THEN SearchReturn(z, record, found, location, UDS_SUCCESS)
             ELSE SearchFinish(z, name, record, found, location, "none",
                               UDS_SUCCESS, z.entries)
        ELSE LET sparse_found ==
                     /\ ~isMasterIndexSample(name)
                     /\ is_sparse(z.geometry)
                     /\ searchSparseCacheInZone(z, name, UINT64_MAX)
                 sparse_location == IF sparse_found THEN LOC_IN_SPARSE
                                    ELSE location
             IN  IF QueryOfNewRecord(request, sparse_found)
                 THEN SearchReturn(z, record, sparse_found, sparse_location,
                                   UDS_SUCCESS)
                 ELSE SearchFinish(z, name, record, sparse_found,
                         sparse_location, "put", outcome,
                         putMasterIndexRecord(z.entries, record, chapter))

(***************************************************************************)
(* remove_from_index_zone.                                                 *)
(***************************************************************************)
\* mutant: the open chapter is cleaned but the master-index record is kept
remove_record_kept(z, record, found, location) ==
    [SearchReturn(z, record, found, location, UDS_SUCCESS)
        EXCEPT !.openChapter = IF location = LOC_IN_OPEN_CHAPTER
                               THEN z.openChapter \ {record.name}
                               ELSE z.openChapter,
               !.mutation = "remove", !.mutation_result = UDS_SUCCESS]

\* lines 503-521: remove the record, and the name from the open chapter if
\* that is where it is; the ASSERT fails if the open chapter lacks the name
remove_record(z, record, found, location) ==
    [SearchReturn(z, record, found, location,
         IF (location = LOC_IN_OPEN_CHAPTER)
            /\ (record.name \notin z.openChapter)
         THEN UDS_ASSERTION_FAILED ELSE UDS_SUCCESS)
        EXCEPT !.entries = removeMasterIndexRecord(z.entries, record),
               !.openChapter = IF location = LOC_IN_OPEN_CHAPTER
                               THEN z.openChapter \ {record.name}
                               ELSE z.openChapter,
               !.mutation = "remove", !.mutation_result = UDS_SUCCESS]

\* mutant: a collision record is confirmed in its chapter as a hint is
remove_from_index_zone_confirms_all(z, request, outcome) ==
    LET name == request.chunkName
        record == getMasterIndexRecord(z.entries, name)
        found == getRecordFromZone(z, name, record.virtualChapter)
        location == computeIndexRegion(z, record.virtualChapter)
    IN  IF ~record.isFound \/ ~found
        THEN SearchReturn(z, record, FALSE, LOC_UNAVAILABLE, UDS_SUCCESS)
        ELSE IF outcome # UDS_SUCCESS
        THEN [SearchReturn(z, record, found, location, outcome)
                 EXCEPT !.mutation = "remove", !.mutation_result = outcome]
        ELSE remove_record(z, record, found, location)

\* lines 464-522
remove_from_index_zone(z, request, outcome) ==
    LET name == request.chunkName
        record == getMasterIndexRecord(z.entries, name)
        found == getRecordFromZone(z, name, record.virtualChapter)
        location == computeIndexRegion(z, record.virtualChapter)
    IN  IF ~record.isFound
        THEN SearchReturn(z, record, FALSE, LOC_UNAVAILABLE, UDS_SUCCESS)
        ELSE IF ~record.isCollision /\ ~found
        THEN SearchReturn(z, record, FALSE, LOC_UNAVAILABLE, UDS_SUCCESS)
        ELSE IF outcome # UDS_SUCCESS
        THEN [SearchReturn(z, record, found, location, outcome)
                 EXCEPT !.mutation = "remove", !.mutation_result = outcome]
        ELSE remove_record(z, record, found, location)

(***************************************************************************)
(* The dispatcher.                                                         *)
(***************************************************************************)
triage_index_request(z, request) ==
    LET triage == lookupMasterIndexName(z.entries, request.chunkName)
    IN  IF ~triage.inSampledChapter
        THEN UINT64_MAX
        ELSE IF ~isZoneChapterSparse(z, triage.virtualChapter)
        THEN UINT64_MAX
        ELSE triage.virtualChapter

\* the chapter the synthesized barrier is for, UINT64_MAX when there is none
simulate_index_zone_barrier_message(z, request) ==
    IF (z.zone_count > 1) \/ ~is_sparse(z.geometry)
    THEN UINT64_MAX
    ELSE triage_index_request(z, request)

\* mutant: a requeued request gets its barrier again
dispatch_barrier_requeued(z, request) ==
    simulate_index_zone_barrier_message(z, request)

\* the zone as the request's search or remove sees it: after the barrier
dispatch_barrier(z, request) ==
    IF request.requeued
    THEN UINT64_MAX
    ELSE simulate_index_zone_barrier_message(z, request)

dispatch_index_zone_request(z, request, outcome) ==
    LET barrier == dispatch_barrier(z, request)
        zb == IF barrier = UINT64_MAX
              THEN z
              ELSE [z EXCEPT !.sparseCache =
                        executeSparseCacheBarrierMessage(z.sparseCache, barrier)]
        done == IF request.action = REQUEST_DELETE
                THEN remove_from_index_zone(zb, request, outcome)
                ELSE search_index_zone(zb, request, outcome)
    IN  [entries |-> done.entries, openChapter |-> done.openChapter,
         sparseCache |-> zb.sparseCache, location |-> done.location,
         result |-> done.result, record |-> done.record, found |-> done.found,
         mutation |-> done.mutation,
         mutation_result |-> done.mutation_result, barrier |-> barrier]

\* request->update is read for a QUERY only, request->requeued only where a
\* barrier would be synthesized, and the master index answers only when it
\* is asked: the other combinations repeat these
Requests(z) ==
    {r \in [chunkName : Names, action : RequestActions, update : BOOLEAN,
            requeued : BOOLEAN] :
        /\ r.update => (r.action = REQUEST_QUERY)
        /\ r.requeued =>
               (simulate_index_zone_barrier_message(z, r) # UINT64_MAX)}

OutcomesOf(z, request) ==
    IF dispatch_index_zone_request(z, request, UDS_SUCCESS).mutation = "none"
    THEN {UDS_SUCCESS}
    ELSE MasterIndexOutcomes

DispatchRequest ==
    \E request \in Requests(ZoneView) :
        \E outcome \in OutcomesOf(ZoneView, request) :
            LET done == dispatch_index_zone_request(ZoneView, request, outcome)
            IN  /\ pc = "ready"
                /\ requests_changed < MaxRequests
                /\ master_index' = done.entries
                /\ openChapter' = done.openChapter
                /\ sparseCache' = done.sparseCache
                /\ requests_changed' =
                       IF <<done.entries, done.openChapter, done.sparseCache>>
                              = <<master_index, openChapter, sparseCache>>
                       THEN requests_changed ELSE requests_changed + 1
                /\ UNCHANGED <<geometry, zone_count, master_index_open,
                               oldest_virtual_chapter, newest_virtual_chapter,
                               zone, volume>>
                /\ UNCHANGED <<loadVars, saveVars, pageVars, resumeVars>>

(***************************************************************************)
(* Closing the open chapter.  The chapter writer persists the open chapter *)
(* in its physical slot and calls advance_active_chapters; the zone takes  *)
(* the new window, tells the master index and resets its open chapter.     *)
(* The chapter index the writer builds can overflow, so a name of the open *)
(* chapter may be dropped from the chapter as the volume has it.           *)
(***************************************************************************)
\* mutant: the shadow test made on the chapter being closed, not the new one
advance_active_chapters_stale(geom, oldest, newest) ==
    [newest |-> newest + 1,
     oldest |-> IF are_same_physical_chapter(geom, newest, oldest)
                THEN oldest + 1 ELSE oldest]

advance_active_chapters(geom, oldest, newest) ==
    [newest |-> newest + 1,
     oldest |-> IF are_same_physical_chapter(geom, newest + 1, oldest)
                THEN oldest + 1 ELSE oldest]

setActiveChapters(oldest, newest) ==
    [oldestVirtualChapter |-> oldest, newestVirtualChapter |-> newest]

AdvanceChapter ==
    /\ pc = "ready"
    /\ newest_virtual_chapter < MaxVcn
    /\ LET next == advance_active_chapters(geometry, oldest_virtual_chapter,
                                           newest_virtual_chapter)
       IN  /\ oldest_virtual_chapter' = next.oldest
           /\ newest_virtual_chapter' = next.newest
           /\ zone' = setActiveChapters(next.oldest, next.newest)
           /\ master_index' =
                  setMasterIndexOpenChapter(geometry, master_index, next.newest)
           /\ master_index_open' = next.newest
    /\ \E written \in SUBSET openChapter :
           volume' = [volume EXCEPT
                         ![map_to_physical_chapter(geometry,
                                                   newest_virtual_chapter)]
                             = written]
    /\ openChapter' = {}
    /\ UNCHANGED <<geometry, zone_count, sparseCache, requests_changed>>
    /\ UNCHANGED <<loadVars, saveVars, pageVars, resumeVars>>

(***************************************************************************)
(* A created index serving requests.                                       *)
(***************************************************************************)
Init ==
    /\ geometry \in {DenseGeometry, SparseGeometry}
    /\ zone_count = 1
    /\ master_index = {}
    /\ master_index_open = 0
    /\ oldest_virtual_chapter = 0
    /\ newest_virtual_chapter = 0
    /\ zone = setActiveChapters(0, 0)
    /\ openChapter = {}
    /\ volume = [p \in PhysicalChapters |-> {}]
    /\ sparseCache = <<>>
    /\ requests_changed = 0
    /\ pc = "ready"
    /\ load_type = LOAD_CREATE
    /\ load_context = INDEX_READY
    /\ lookupMode = LOOKUP_NORMAL
    /\ loaded_type = LOAD_CREATE
    /\ result = UDS_SUCCESS
    /\ last_checkpoint = NO_LAST_CHECKPOINT
    /\ has_saved_open_chapter = FALSE
    /\ replay = NoReplay
    /\ observed = NothingObserved
    /\ boundaries = NoBoundaries
    /\ faults = 0
    /\ mutex = "free"
    /\ waiter = "none"
    /\ prev_checkpoint = NO_LAST_CHECKPOINT
    /\ saved = NothingSaved
    /\ index_pages = CanonicalIndexPages
    /\ indexPageMap = NoIndexPageMap
    /\ NoResume

Next ==
    \/ DispatchRequest
    \/ AdvanceChapter

vars == <<indexVars, loadVars, saveVars, pageVars, resumeVars>>

Spec == Init /\ [][Next]_vars

(***************************************************************************)
(* replay_record and the replay of a chapter.  `fault` is what goes wrong  *)
(* for the record, if anything: the lookup fails, the search of the volume *)
(* page cache fails, or set_chapter or put does not answer success.        *)
(***************************************************************************)
ReplayReturn(entries, code, mutation) ==
    [entries |-> entries, result |-> code, mutation |-> mutation]

NoFault == [at |-> "none", name |-> NoName, outcome |-> UDS_SUCCESS]

\* lines 697-738: is the record found to be the name's own
update_record(geom, vol, record, name, virtual_chapter) ==
    IF ~record.isFound THEN FALSE
    ELSE IF record.isCollision THEN TRUE
    ELSE IF record.virtualChapter = virtual_chapter THEN FALSE
    ELSE searchVolumePageCache(geom, vol, name, record.virtualChapter)

\* line 728 is reached: a hint that points at another chapter
searches_page_cache(record, virtual_chapter) ==
    /\ record.isFound
    /\ ~record.isCollision
    /\ record.virtualChapter # virtual_chapter

\* mutant: a hint that points at another chapter is taken for the name's own
replay_record_update_trusts_hint(geom, entries, vol, name, virtual_chapter, fault) ==
    LET record == getMasterIndexRecord(entries, name)
    IN  IF fault.at = "lookup"
        THEN ReplayReturn(entries, fault.outcome, "none")
        ELSE IF record.isFound
        THEN ReplayReturn(setMasterIndexRecordChapter(entries, record,
                                                      virtual_chapter),
                          UDS_SUCCESS, "set_chapter")
        ELSE ReplayReturn(putMasterIndexRecord(entries, record,
                                               virtual_chapter),
                          UDS_SUCCESS, "put")

\* mutant: OVERFLOW from the master index ends the replay of the record
replay_record_update_overflow_fatal(geom, entries, vol, name, virtual_chapter, fault) ==
    LET record == getMasterIndexRecord(entries, name)
        update == update_record(geom, vol, record, name, virtual_chapter)
        mutation == IF update THEN "set_chapter" ELSE "put"
    IN  IF fault.at = "lookup"
        THEN ReplayReturn(entries, fault.outcome, "none")
        ELSE IF /\ record.isFound /\ record.isCollision
                /\ record.virtualChapter = virtual_chapter
        THEN ReplayReturn(entries, UDS_SUCCESS, "none")
        ELSE IF /\ fault.at = "page_cache"
                /\ searches_page_cache(record, virtual_chapter)
        THEN ReplayReturn(entries, fault.outcome, "none")
        ELSE IF fault.at = "record" /\ fault.outcome = UDS_DUPLICATE_NAME
        THEN ReplayReturn(entries, UDS_SUCCESS, mutation)
        ELSE IF fault.at = "record"
        THEN ReplayReturn(entries, fault.outcome, mutation)
        ELSE IF update
        THEN ReplayReturn(setMasterIndexRecordChapter(entries, record,
                                                      virtual_chapter),
                          UDS_SUCCESS, mutation)
        ELSE ReplayReturn(putMasterIndexRecord(entries, record,
                                               virtual_chapter),
                          UDS_SUCCESS, mutation)

\* lines 691-763: the record is looked up and its chapter set, or a new
\* entry put
replay_record_update(geom, entries, vol, name, virtual_chapter, fault) ==
    LET record == getMasterIndexRecord(entries, name)
        update == update_record(geom, vol, record, name, virtual_chapter)
        mutation == IF update THEN "set_chapter" ELSE "put"
    IN  IF fault.at = "lookup"
        THEN ReplayReturn(entries, fault.outcome, "none")
        ELSE IF /\ record.isFound /\ record.isCollision
                /\ record.virtualChapter = virtual_chapter
        THEN ReplayReturn(entries, UDS_SUCCESS, "none")
        ELSE IF /\ fault.at = "page_cache"
                /\ searches_page_cache(record, virtual_chapter)
        THEN ReplayReturn(entries, fault.outcome, "none")
        ELSE IF /\ fault.at = "record"
                /\ fault.outcome \in {UDS_DUPLICATE_NAME, UDS_OVERFLOW}
        THEN ReplayReturn(entries, UDS_SUCCESS, mutation)
        ELSE IF fault.at = "record"
        THEN ReplayReturn(entries, fault.outcome, mutation)
        ELSE IF update
        THEN ReplayReturn(setMasterIndexRecordChapter(entries, record,
                                                      virtual_chapter),
                          UDS_SUCCESS, mutation)
        ELSE ReplayReturn(putMasterIndexRecord(entries, record,
                                               virtual_chapter),
                          UDS_SUCCESS, mutation)

\* mutant: no record of a chapter that will be sparse is indexed
replay_record_skips_sparse(geom, entries, vol, name, virtual_chapter, will_be_sparse_chapter, fault) ==
    IF will_be_sparse_chapter
    THEN ReplayReturn(entries, UDS_SUCCESS, "skip")
    ELSE replay_record_update(geom, entries, vol, name, virtual_chapter,
                              fault)

\* lines 679-690: a record that is no sample is not indexed from a chapter
\* that will be sparse
replay_record(geom, entries, vol, name, virtual_chapter, will_be_sparse_chapter, fault) ==
    IF will_be_sparse_chapter /\ ~isMasterIndexSample(name)
    THEN ReplayReturn(entries, UDS_SUCCESS, "skip")
    ELSE replay_record_update(geom, entries, vol, name, virtual_chapter,
                              fault)

\* what can go wrong for a record: its lookup fails, the search of the
\* volume page cache fails, or set_chapter or put does not answer success
RecordFaults(records) ==
    {[at |-> "lookup", name |-> n, outcome |-> UDS_BAD_STATE] : n \in records}
        \cup {[at |-> "page_cache", name |-> n, outcome |-> UDS_CORRUPT_DATA] :
                 n \in records}
        \cup {[at |-> "record", name |-> n, outcome |-> o] :
                 n \in records,
                 o \in {UDS_OVERFLOW, UDS_DUPLICATE_NAME, UDS_BAD_STATE}}

\* what can go wrong while a chapter is replayed: an index page that is
\* unreadable or out of sequence, an unreadable record page, or a record
\* that fails
ChapterFaults(records) ==
    {NoFault}
        \cup {[at |-> "index_page", name |-> NoName, outcome |-> r.result] :
                 r \in IndexPageFailures}
        \cup {[at |-> "record_page", name |-> NoName, outcome |-> o] :
                 o \in {UDS_BAD_STATE}}
        \cup RecordFaults(records)

\* lines 886-912: the records of a chapter in page order, until one fails
RECURSIVE replay_records(_, _, _, _, _, _, _)
replay_records(geom, entries, vol, records, vcn, will_be_sparse_chapter, fault) ==
    IF records = {}
    THEN ReplayReturn(entries, UDS_SUCCESS, "none")
    ELSE LET name == CHOOSE n \in records : \A m \in records : n <= m
             done == replay_record(geom, entries, vol, name, vcn,
                         will_be_sparse_chapter,
                         IF fault.name = name THEN fault ELSE NoFault)
         IN  IF done.result # UDS_SUCCESS
             THEN done
             ELSE replay_records(geom, done.entries, vol, records \ {name},
                                 vcn, will_be_sparse_chapter, fault)

\* lines 856-913: one chapter of replay_volume, after the suspend check
replay_chapter(geom, entries, vol, from_vcn, upto_vcn, vcn, fault) ==
    LET will_be_sparse_chapter ==
            is_chapter_sparse(geom, from_vcn, upto_vcn, vcn)
        chapter == map_to_physical_chapter(geom, vcn)
        opened == setMasterIndexOpenChapter(geom, entries, vcn)
    IN  IF fault.at \in {"index_page", "record_page"}
        THEN ReplayReturn(opened, fault.outcome, "none")
        ELSE replay_records(geom, opened, vol, vol[chapter], vcn,
                            will_be_sparse_chapter, fault)

\* replay_volume from vcn on when nothing fails and nobody suspends it
RECURSIVE replay_chapters(_, _, _, _, _, _)
replay_chapters(geom, entries, vol, from_vcn, upto_vcn, vcn) ==
    IF vcn >= upto_vcn
    THEN setMasterIndexOpenChapter(geom, entries, upto_vcn)
    ELSE replay_chapters(geom,
             replay_chapter(geom, entries, vol, from_vcn, upto_vcn, vcn,
                            NoFault).entries,
             vol, from_vcn, upto_vcn, vcn + 1)

\* lines 823-824: the master index is told upto, then from
replay_volume_start(geom, entries, from_vcn, upto_vcn) ==
    setMasterIndexOpenChapter(geom,
        setMasterIndexOpenChapter(geom, entries, upto_vcn), from_vcn)

replay_volume(geom, entries, vol, from_vcn, upto_vcn) ==
    replay_chapters(geom,
        replay_volume_start(geom, entries, from_vcn, upto_vcn),
        vol, from_vcn, upto_vcn, from_vcn)

(***************************************************************************)
(* make_index.  A step of the call runs from one answer of its environment *)
(* (the layout, the saved index state, the volume, the load context) to    *)
(* the next; what the environment answers is chosen at the step that asks. *)
(* While the volume is replayed the embedder may change the status of the  *)
(* load context.                                                           *)
(***************************************************************************)
Plus64(a, b) == (a + b) % (2 ^ Uint64Bits)

Minus64(a, b) == (a - b) % (2 ^ Uint64Bits)

\* lines 771-774: begin_save rotates the checkpoints
begin_save(checkpoint, open_chapter_number) ==
    [prev_checkpoint |-> checkpoint,
     last_checkpoint |-> IF open_chapter_number = 0 THEN NO_LAST_CHECKPOINT
                         ELSE Minus64(open_chapter_number, 1)]

\* lines 104-107: the chapter load_index takes as the last checkpoint
checkpoint_chapter(checkpoint) ==
    IF checkpoint # NO_LAST_CHECKPOINT THEN checkpoint ELSE 0

\* the window of an index whose open chapter is chapter n
RECURSIVE WindowAt(_, _)
WindowAt(geom, n) ==
    IF n = 0
    THEN [oldest |-> 0, newest |-> 0]
    ELSE LET w == WindowAt(geom, n - 1)
         IN  advance_active_chapters(geom, w.oldest, w.newest)

\* the master index without the record of the name, if it has one
WithoutName(geom, entries, vol, name) ==
    LET record == getMasterIndexRecord(entries, name)
    IN  IF /\ name # NoName
           /\ record.isFound
           /\ record.isCollision
                  \/ searchVolumePageCache(geom, vol, name,
                                           record.virtualChapter)
        THEN removeMasterIndexRecord(entries, record)
        ELSE entries

\* the index states a save or checkpoint can have left: the state of an index
\* whose open chapter was chapter n, with the records of the chapters before
\* it, less a record that was deleted
SavedStates(geom, vol) ==
    {[oldest |-> WindowAt(geom, n).oldest,
      newest |-> n,
      last_checkpoint |-> IF n = 0 THEN NO_LAST_CHECKPOINT ELSE n - 1,
      entries |-> WithoutName(geom,
                      replay_volume(geom, {}, vol, WindowAt(geom, n).oldest, n),
                      vol, deleted)] :
        n \in 0 .. MaxVcn, deleted \in Names \cup {NoName}}

\* what load_index_state answers
LoadIndexStates(geom, vol) ==
    {[result |-> r, replay_required |-> FALSE, state |-> "none"] :
         r \in {ENOMEM, UDS_CORRUPT_COMPONENT}}
        \cup {[result |-> UDS_SUCCESS, replay_required |-> q, state |-> st] :
                 q \in BOOLEAN, st \in SavedStates(geom, vol)}

\* what findVolumeChapterBoundaries answers
VolumeChapterBoundaries ==
    {[result |-> UDS_CORRUPT_DATA, lowest |-> 0, highest |-> 0,
      is_empty |-> FALSE]}
        \cup {[result |-> UDS_SUCCESS, lowest |-> 0, highest |-> 0,
               is_empty |-> TRUE]}
        \cup {[result |-> UDS_SUCCESS, lowest |-> l, highest |-> h,
               is_empty |-> FALSE] : l \in 0 .. MaxVcn, h \in 0 .. MaxVcn}

\* findVolumeChapterBoundaries: a volume reports the same boundaries each
\* time it is asked
FoundBoundaries ==
    IF boundaries = NoBoundaries THEN VolumeChapterBoundaries
    ELSE {boundaries}

\* mutant: the replay starts at the checkpoint whatever the window
first_replay_chapter_unclamped(checkpoint, oldest) == checkpoint

\* lines 82-85: the replay starts at the checkpoint chapter, or at the
\* oldest chapter when that is later
first_replay_chapter(checkpoint, oldest) ==
    IF checkpoint < oldest THEN oldest ELSE checkpoint

\* mutant: the chapter the open chapter shadows is kept in the window
BoundariesWindow_keeps_shadowed(geom, lowest_vcn, highest_vcn) ==
    [newest |-> Plus64(highest_vcn, 1), oldest |-> lowest_vcn]

\* lines 74-80 and 156-162: the window the boundaries give
BoundariesWindow(geom, lowest_vcn, highest_vcn) ==
    LET newest == Plus64(highest_vcn, 1)
    IN  [newest |-> newest,
         oldest |-> IF newest = Plus64(lowest_vcn, geom.chapters_per_volume)
                    THEN Plus64(lowest_vcn, 1) ELSE lowest_vcn]

\* line 247: replay is allowed to a caller that asked for a rebuild
allow_replay_always(type) == TRUE

allow_replay(type) == type = LOAD_REBUILD

\* line 99
refuse_replay_never(replay_required, allowed) == FALSE

refuse_replay(replay_required, allowed) == replay_required /\ ~allowed

\* lines 248-260: is rebuild_index called after load_index returned `code`
rebuild_after_any_error(type, code) ==
    (code # UDS_SUCCESS) /\ (type = LOAD_REBUILD)

rebuild_after_load(type, code) ==
    (code \notin {UDS_SUCCESS, ENOMEM}) /\ (type = LOAD_REBUILD)

\* lines 165-166
boundaries_too_large(geom, oldest, newest) ==
    Minus64(newest, oldest) > geom.chapters_per_volume

\* a broadcast of index->load_context->cond wakes the thread that waits
\* for its suspend to be answered
broadcastCond(waiting) == IF waiting = "waiting" THEN "woken" ELSE waiting

\* lines 273-279 and 287-289: the index is freed; or, with a load context,
\* make_index goes on to take its mutex; or, without one, the index is
\* returned
MakeIndexReturn(code, type) ==
    /\ result' = code
    /\ loaded_type' = type
    /\ IF code # UDS_SUCCESS
       THEN /\ pc' = "failed"
            /\ UNCHANGED <<load_context, has_saved_open_chapter>>
       ELSE IF load_context # "NULL"
       THEN /\ pc' = "make_index_lock"
            /\ UNCHANGED <<load_context, has_saved_open_chapter>>
       ELSE /\ pc' = "ready"
            /\ has_saved_open_chapter' = (type = LOAD_LOAD)
            /\ UNCHANGED load_context

\* line 279: lockMutex
MakeIndexLock ==
    /\ pc = "make_index_lock"
    /\ mutex = "free"
    /\ mutex' = "make_index"
    /\ pc' = "make_index_ready"
    /\ UNCHANGED <<indexVars, load_type, load_context, lookupMode,
                   loaded_type, result, last_checkpoint,
                   has_saved_open_chapter, replay, observed, boundaries,
                   faults, waiter>>
    /\ UNCHANGED <<saveVars, pageVars, resumeVars>>

\* mutant: the status is made READY and nobody is told
MakeIndexReady_no_broadcast ==
    /\ pc = "make_index_ready"
    /\ load_context' = INDEX_READY
    /\ mutex' = "free"
    /\ has_saved_open_chapter' = (loaded_type = LOAD_LOAD)
    /\ pc' = "ready"
    /\ UNCHANGED <<indexVars, load_type, lookupMode, loaded_type, result,
                   last_checkpoint, replay, observed, boundaries, faults,
                   waiter>>
    /\ UNCHANGED <<saveVars, pageVars, resumeVars>>

\* lines 280-289: under the mutex the status is made READY and the
\* condition is broadcast; the index is returned
MakeIndexReady ==
    /\ pc = "make_index_ready"
    /\ load_context' = INDEX_READY
    /\ waiter' = broadcastCond(waiter)
    /\ mutex' = "free"
    /\ has_saved_open_chapter' = (loaded_type = LOAD_LOAD)
    /\ pc' = "ready"
    /\ UNCHANGED <<indexVars, load_type, lookupMode, loaded_type, result,
                   last_checkpoint, replay, observed, boundaries, faults>>
    /\ UNCHANGED <<saveVars, pageVars, resumeVars>>

\* lines 116-127 and 248-267: load_index returns `code` to make_index, which
\* goes on to rebuild_index or to its end
LoadIndexReturn(code, seen, oldest, newest) ==
    LET type == IF code # UDS_SUCCESS THEN loaded_type
                ELSE IF seen.replay_required THEN LOAD_REPLAY
                ELSE LOAD_LOAD
    IN  /\ zone' = IF code = UDS_SUCCESS
                   THEN setActiveChapters(oldest, newest) ELSE zone
        /\ IF rebuild_after_load(load_type, code)
           THEN /\ pc' = "rebuild_index"
                /\ result' = code
                /\ loaded_type' = type
                /\ observed' = [seen EXCEPT !.load_result = code,
                                            !.rebuild_attempted = TRUE]
                /\ UNCHANGED <<load_context, has_saved_open_chapter>>
           ELSE /\ observed' = [seen EXCEPT !.load_result = code]
                /\ MakeIndexReturn(code, type)

\* lines 178-188 and 261-266: rebuild_index returns `code` after the replay
RebuildIndexReturn(code) ==
    /\ zone' = IF code = UDS_SUCCESS
               THEN setActiveChapters(oldest_virtual_chapter,
                                      newest_virtual_chapter)
               ELSE zone
    /\ MakeIndexReturn(code, IF code = UDS_SUCCESS THEN LOAD_REBUILD
                             ELSE loaded_type)
    /\ UNCHANGED observed

\* replay_volume returns `code` to load_index or to rebuild_index
ReplayVolumeReturn(code) ==
    IF replay.caller = "load_index"
    THEN LoadIndexReturn(code, observed, oldest_virtual_chapter,
                         newest_virtual_chapter)
    ELSE RebuildIndexReturn(code)

\* lines 192-247 and 268-289: allocation, then the load type decides
MakeIndex ==
    /\ pc = "make_index"
    /\ \E allocated \in {UDS_SUCCESS, ENOMEM}, existed \in BOOLEAN :
           IF allocated # UDS_SUCCESS
           THEN /\ pc' = "failed"
                /\ result' = allocated
                /\ UNCHANGED <<loaded_type, load_context,
                               has_saved_open_chapter>>
           ELSE IF load_type \notin {LOAD_LOAD, LOAD_REBUILD}
           THEN MakeIndexReturn(UDS_SUCCESS, LOAD_CREATE)
           ELSE /\ pc' = IF existed THEN "load_index" ELSE "failed"
                /\ result' = IF existed THEN UDS_SUCCESS ELSE UDS_NO_INDEX
                /\ UNCHANGED <<loaded_type, load_context,
                               has_saved_open_chapter>>
    /\ UNCHANGED <<indexVars, load_type, lookupMode, last_checkpoint, replay,
                   observed, boundaries, faults, mutex, waiter>>
    /\ UNCHANGED <<saveVars, pageVars, resumeVars>>

\* lines 90-127: the saved state is read; replay may be refused
LoadIndex ==
    /\ pc = "load_index"
    /\ \E loaded \in LoadIndexStates(geometry, volume) :
           LET refused == refuse_replay(loaded.replay_required,
                                        allow_replay(load_type))
               seen == [observed EXCEPT
                           !.replay_required = loaded.replay_required,
                           !.loaded_oldest = loaded.state.oldest,
                           !.loaded_newest = loaded.state.newest]
           IN  IF loaded.result # UDS_SUCCESS
               THEN /\ LoadIndexReturn(loaded.result, observed,
                                       oldest_virtual_chapter,
                                       newest_virtual_chapter)
                    /\ UNCHANGED <<master_index, master_index_open,
                                   oldest_virtual_chapter,
                                   newest_virtual_chapter, last_checkpoint>>
               ELSE /\ master_index' = loaded.state.entries
                    /\ master_index_open' = loaded.state.newest
                    /\ oldest_virtual_chapter' = loaded.state.oldest
                    /\ newest_virtual_chapter' = loaded.state.newest
                    /\ last_checkpoint' = loaded.state.last_checkpoint
                    /\ IF refused
                       THEN LoadIndexReturn(UDS_INDEX_NOT_SAVED_CLEANLY, seen,
                                            loaded.state.oldest,
                                            loaded.state.newest)
                       ELSE IF loaded.replay_required
                       THEN /\ pc' = "replay_index_from_checkpoint"
                            /\ observed' = seen
                            /\ UNCHANGED <<zone, result, loaded_type,
                                           load_context,
                                           has_saved_open_chapter>>
                       ELSE LoadIndexReturn(UDS_SUCCESS, seen,
                                            loaded.state.oldest,
                                            loaded.state.newest)
    /\ UNCHANGED <<geometry, zone_count, openChapter, volume, sparseCache,
                   requests_changed, load_type, lookupMode, replay,
                   boundaries, faults, mutex, waiter>>
    /\ UNCHANGED <<saveVars, pageVars, resumeVars>>

\* lines 819-835: replay_volume up to its loop
StartReplay(entries, oldest, newest, from_vcn, caller) ==
    /\ oldest_virtual_chapter' = oldest
    /\ newest_virtual_chapter' = newest
    /\ master_index' = replay_volume_start(geometry, entries, from_vcn, newest)
    /\ master_index_open' = from_vcn
    /\ replay' = [from_vcn |-> from_vcn, upto_vcn |-> newest, vcn |-> from_vcn,
                  old_lookup_mode |-> lookupMode, caller |-> caller]
    /\ lookupMode' = LOOKUP_FOR_REBUILD
    /\ pc' = "replay_volume"
    /\ UNCHANGED <<zone, result, loaded_type, observed, load_context,
                   has_saved_open_chapter>>

\* mutant: an empty volume is accepted whatever the index holds
replay_from_empty_volume_accepts(newest) == UDS_SUCCESS

\* lines 63-70: the volume is empty, so the index should also be empty
replay_from_empty_volume(newest) ==
    IF newest # 0 THEN UDS_CORRUPT_COMPONENT ELSE UDS_SUCCESS

\* lines 41-86
ReplayIndexFromCheckpoint ==
    /\ pc = "replay_index_from_checkpoint"
    /\ \E found \in FoundBoundaries :
           LET window == BoundariesWindow(geometry, found.lowest,
                                          found.highest)
               last_checkpoint_chapter == checkpoint_chapter(last_checkpoint)
               first == first_replay_chapter(last_checkpoint_chapter,
                                             window.oldest)
               code == IF found.result # UDS_SUCCESS THEN found.result
                       ELSE IF found.lowest > found.highest
                       THEN UDS_CORRUPT_COMPONENT
                       ELSE IF found.is_empty
                       THEN replay_from_empty_volume(newest_virtual_chapter)
                       ELSE UDS_SUCCESS
           IN  /\ boundaries' = found
               /\ IF (code = UDS_SUCCESS) /\ ~found.is_empty
                  THEN StartReplay(master_index, window.oldest,
                                   window.newest, first,
                                   "load_index")
                  ELSE /\ LoadIndexReturn(code, observed,
                                          oldest_virtual_chapter,
                                          newest_virtual_chapter)
                       /\ UNCHANGED <<master_index, master_index_open,
                                      oldest_virtual_chapter,
                                      newest_virtual_chapter, lookupMode,
                                      replay>>
    /\ UNCHANGED <<geometry, zone_count, openChapter, volume, sparseCache,
                   requests_changed, load_type, last_checkpoint, faults,
                   mutex, waiter>>
    /\ UNCHANGED <<saveVars, pageVars, resumeVars>>

\* lines 131-177
RebuildIndex ==
    /\ pc = "rebuild_index"
    /\ \E found \in FoundBoundaries :
           LET window == IF found.is_empty THEN [oldest |-> 0, newest |-> 0]
                         ELSE BoundariesWindow(geometry, found.lowest,
                                               found.highest)
               reset == setMasterIndexOpenChapter(geometry, master_index, 0)
           IN  /\ boundaries' = found
               /\ IF (found.result # UDS_SUCCESS)
                         \/ (found.lowest > found.highest)
                  THEN /\ MakeIndexReturn(
                              IF found.result # UDS_SUCCESS THEN found.result
                              ELSE UDS_CORRUPT_COMPONENT, loaded_type)
                       /\ UNCHANGED <<master_index, master_index_open,
                                      oldest_virtual_chapter,
                                      newest_virtual_chapter, lookupMode,
                                      replay, zone, observed>>
                  ELSE IF boundaries_too_large(geometry, window.oldest,
                                               window.newest)
                  THEN /\ MakeIndexReturn(UDS_CORRUPT_COMPONENT, loaded_type)
                       /\ oldest_virtual_chapter' = window.oldest
                       /\ newest_virtual_chapter' = window.newest
                       /\ UNCHANGED <<master_index, master_index_open,
                                      lookupMode, replay, zone, observed>>
                  ELSE IF found.is_empty
                  THEN /\ MakeIndexReturn(UDS_SUCCESS, LOAD_EMPTY)
                       /\ oldest_virtual_chapter' = window.oldest
                       /\ newest_virtual_chapter' = window.newest
                       /\ master_index' = reset
                       /\ master_index_open' = 0
                       /\ UNCHANGED <<lookupMode, replay, zone, observed>>
                  ELSE StartReplay(reset, window.oldest, window.newest,
                                   window.oldest, "rebuild_index")
    /\ UNCHANGED <<geometry, zone_count, openChapter, volume, sparseCache,
                   requests_changed, load_type, last_checkpoint, faults,
                   mutex, waiter>>
    /\ UNCHANGED <<saveVars, pageVars, resumeVars>>

\* lines 796 and 811: check_for_suspend unlocks the mutex before it returns
check_for_suspend_unlock(holder) == "free"

\* lines 788-794: with a load context, check_for_suspend takes its mutex
CheckForSuspend ==
    /\ pc = "replay_volume"
    /\ replay.vcn < replay.upto_vcn
    /\ load_context # "NULL"
    /\ mutex = "free"
    /\ mutex' = "make_index"
    /\ pc' = "check_for_suspend"
    /\ UNCHANGED <<indexVars, load_type, load_context, lookupMode,
                   loaded_type, result, last_checkpoint,
                   has_saved_open_chapter, replay, observed, boundaries,
                   faults, waiter>>
    /\ UNCHANGED <<saveVars, pageVars, resumeVars>>

\* mutant: the suspend is answered and the replay goes on
CheckForSuspendWait_no_wait ==
    /\ pc = "check_for_suspend"
    /\ load_context = INDEX_SUSPENDING
    /\ load_context' = INDEX_SUSPENDED
    /\ waiter' = broadcastCond(waiter)
    /\ mutex' = "free"
    /\ pc' = "replay_chapter"
    /\ observed' = [observed EXCEPT !.suspended = TRUE]
    /\ UNCHANGED <<indexVars, load_type, lookupMode, loaded_type, result,
                   last_checkpoint, has_saved_open_chapter, replay,
                   boundaries, faults>>
    /\ UNCHANGED <<saveVars, pageVars, resumeVars>>

\* lines 795-808: a requested suspend is answered: the status is made
\* SUSPENDED, the condition is broadcast, and the wait gives the mutex up
CheckForSuspendWait ==
    /\ pc = "check_for_suspend"
    /\ load_context = INDEX_SUSPENDING
    /\ load_context' = INDEX_SUSPENDED
    /\ waiter' = broadcastCond(waiter)
    /\ mutex' = "free"
    /\ pc' = "wait_for_resume"
    /\ observed' = [observed EXCEPT !.suspended = TRUE]
    /\ UNCHANGED <<indexVars, load_type, lookupMode, loaded_type, result,
                   last_checkpoint, has_saved_open_chapter, replay,
                   boundaries, faults>>
    /\ UNCHANGED <<saveVars, pageVars, resumeVars>>

\* mutant: the wait ends only when the load is given up
WaitForResume_only_freeing ==
    /\ pc = "wait_for_resume"
    /\ load_context = INDEX_FREEING
    /\ mutex = "free"
    /\ mutex' = check_for_suspend_unlock("make_index")
    /\ ReplayVolumeReturn(UDS_SHUTTINGDOWN)
    /\ UNCHANGED <<geometry, zone_count, master_index, master_index_open,
                   oldest_virtual_chapter, newest_virtual_chapter,
                   openChapter, volume, sparseCache, requests_changed,
                   load_type, lookupMode, last_checkpoint, replay,
                   boundaries, faults, waiter>>
    /\ UNCHANGED <<saveVars, pageVars, resumeVars>>

\* lines 804-813 and 850-854: the wait ends with OPENING or FREEING; the
\* thread wakes holding the mutex, reads the status and unlocks
WaitForResume ==
    /\ pc = "wait_for_resume"
    /\ load_context \in {INDEX_OPENING, INDEX_FREEING}
    /\ mutex = "free"
    /\ mutex' = check_for_suspend_unlock("make_index")
    /\ IF load_context = INDEX_FREEING
       THEN ReplayVolumeReturn(UDS_SHUTTINGDOWN)
       ELSE /\ pc' = "replay_chapter"
            /\ UNCHANGED <<zone, result, loaded_type, observed, load_context,
                           has_saved_open_chapter>>
    /\ UNCHANGED <<geometry, zone_count, master_index, master_index_open,
                   oldest_virtual_chapter, newest_virtual_chapter,
                   openChapter, volume, sparseCache, requests_changed,
                   load_type, lookupMode, last_checkpoint, replay,
                   boundaries, faults, waiter>>
    /\ UNCHANGED <<saveVars, pageVars, resumeVars>>

\* what rebuild_index_page_map answers for the chapter: a failure when an
\* index page is the fault, else what the pages of the volume give
PageMapAnswers(fault) ==
    IF fault.at = "index_page"
    THEN {r \in IndexPageFailures : r.result = fault.outcome}
    ELSE {rebuild_index_page_map(index_pages, NoPageError)}

\* lines 849-914: one chapter, when check_for_suspend answered false:
\* without a load context (lines 790-792), with a status that is not
\* SUSPENDING (lines 795-798, where the mutex is unlocked), or after the wait
ReplayChapter ==
    /\ \/ pc = "replay_chapter"
       \/ pc = "replay_volume" /\ load_context = "NULL"
       \/ pc = "check_for_suspend" /\ load_context # INDEX_SUSPENDING
    /\ replay.vcn < replay.upto_vcn
    /\ mutex' = IF pc = "check_for_suspend"
                THEN check_for_suspend_unlock(mutex) ELSE mutex
    /\ \E fault \in ChapterFaults(
                        volume[map_to_physical_chapter(geometry, replay.vcn)]) :
         \E page_map \in PageMapAnswers(fault) :
           LET met == IF page_map.result # UDS_SUCCESS
                      THEN [at |-> "index_page", name |-> NoName,
                            outcome |-> page_map.result]
                      ELSE fault
               done == replay_chapter(geometry, master_index, volume,
                           replay.from_vcn, replay.upto_vcn, replay.vcn, met)
           IN  /\ (fault # NoFault) => (faults < MaxFaults)
               /\ faults' = IF fault = NoFault THEN faults ELSE faults + 1
               /\ master_index' = done.entries
               /\ master_index_open' = replay.vcn
               /\ indexPageMap' =
                      update_index_page_map(indexPageMap, replay.vcn,
                          map_to_physical_chapter(geometry, replay.vcn),
                          page_map.updated)
               /\ IF done.result # UDS_SUCCESS
                  THEN /\ lookupMode' = replay.old_lookup_mode
                       /\ ReplayVolumeReturn(done.result)
                       /\ UNCHANGED replay
                  ELSE /\ replay' = [replay EXCEPT !.vcn = @ + 1]
                       /\ pc' = "replay_volume"
                       /\ UNCHANGED <<zone, result, loaded_type, observed,
                                      load_context, has_saved_open_chapter,
                                      lookupMode>>
    /\ UNCHANGED <<geometry, zone_count, oldest_virtual_chapter,
                   newest_virtual_chapter, openChapter, volume, sparseCache,
                   requests_changed, load_type, last_checkpoint, boundaries,
                   waiter>>
    /\ UNCHANGED <<saveVars, index_pages, resumeVars>>

\* mutant: the master index is not told the open chapter after the loop
ReplayVolumeFinish_no_reap ==
    /\ pc = "replay_volume"
    /\ ~(replay.vcn < replay.upto_vcn)
    /\ lookupMode' = replay.old_lookup_mode
    /\ UNCHANGED <<master_index, master_index_open>>
    /\ ReplayVolumeReturn(UDS_SUCCESS)
    /\ UNCHANGED <<geometry, zone_count, oldest_virtual_chapter,
                   newest_virtual_chapter, openChapter, volume, sparseCache,
                   requests_changed, load_type, last_checkpoint, replay,
                   boundaries, faults, mutex, waiter>>
    /\ UNCHANGED <<saveVars, pageVars, resumeVars>>

\* lines 915-928: after the last chapter
ReplayVolumeFinish ==
    /\ pc = "replay_volume"
    /\ ~(replay.vcn < replay.upto_vcn)
    /\ lookupMode' = replay.old_lookup_mode
    /\ master_index' =
           setMasterIndexOpenChapter(geometry, master_index, replay.upto_vcn)
    /\ master_index_open' = replay.upto_vcn
    /\ ReplayVolumeReturn(UDS_SUCCESS)
    /\ UNCHANGED <<geometry, zone_count, oldest_virtual_chapter,
                   newest_virtual_chapter, openChapter, volume, sparseCache,
                   requests_changed, load_type, last_checkpoint, replay,
                   boundaries, faults, mutex, waiter>>
    /\ UNCHANGED <<saveVars, pageVars, resumeVars>>

\* the embedder, holding the mutex for the change, asks a replaying index to
\* suspend and waits on the condition; lets a suspended one go on; or gives
\* the load up.  Each change is signalled
EmbedderSuspend ==
    /\ pc = "replay_volume"
    /\ mutex = "free"
    /\ load_context = INDEX_OPENING
    /\ load_context' = INDEX_SUSPENDING
    /\ waiter' = "waiting"
    /\ UNCHANGED <<indexVars, pc, load_type, lookupMode, loaded_type, result,
                   last_checkpoint, has_saved_open_chapter, replay, observed,
                   boundaries, faults, mutex>>
    /\ UNCHANGED <<saveVars, pageVars, resumeVars>>

EmbedderResume ==
    /\ pc = "wait_for_resume"
    /\ mutex = "free"
    /\ load_context = INDEX_SUSPENDED
    /\ load_context' = INDEX_OPENING
    /\ waiter' = "none"
    /\ UNCHANGED <<indexVars, pc, load_type, lookupMode, loaded_type, result,
                   last_checkpoint, has_saved_open_chapter, replay, observed,
                   boundaries, faults, mutex>>
    /\ UNCHANGED <<saveVars, pageVars, resumeVars>>

EmbedderFree ==
    /\ pc \in {"replay_volume", "wait_for_resume"}
    /\ mutex = "free"
    /\ load_context \in {INDEX_OPENING, INDEX_SUSPENDING, INDEX_SUSPENDED}
    /\ load_context' = INDEX_FREEING
    /\ waiter' = "none"
    /\ UNCHANGED <<indexVars, pc, load_type, lookupMode, loaded_type, result,
                   last_checkpoint, has_saved_open_chapter, replay, observed,
                   boundaries, faults, mutex>>
    /\ UNCHANGED <<saveVars, pageVars, resumeVars>>

\* the volumes that hold up to `records` records.  A load finds one of up to
\* MaxRecords records; with an embedder that suspends, one of one record
Volumes(records) ==
    {vol \in [PhysicalChapters -> SUBSET Names] :
        Cardinality({<<p, n>> \in PhysicalChapters \X Names : n \in vol[p]})
            <= records}

LoadInit ==
    /\ geometry = SparseGeometry
    /\ zone_count = 1
    /\ master_index = {}
    /\ master_index_open = 0
    /\ oldest_virtual_chapter = 0
    /\ newest_virtual_chapter = 0
    /\ zone = setActiveChapters(0, 0)
    /\ openChapter = {}
    /\ sparseCache = <<>>
    /\ requests_changed = 0
    /\ pc = "make_index"
    /\ load_type \in {LOAD_CREATE, LOAD_LOAD, LOAD_REBUILD}
    /\ load_context \in {"NULL", INDEX_OPENING}
    /\ volume \in IF load_type = LOAD_CREATE THEN Volumes(0)
                  ELSE IF load_context = "NULL" THEN Volumes(MaxRecords)
                  ELSE Volumes(1)
    /\ lookupMode = LOOKUP_NORMAL
    /\ loaded_type = LOAD_UNDEFINED
    /\ result = UDS_SUCCESS
    /\ last_checkpoint = NO_LAST_CHECKPOINT
    /\ has_saved_open_chapter = FALSE
    /\ replay = NoReplay
    /\ observed = NothingObserved
    /\ boundaries = NoBoundaries
    /\ faults = 0
    /\ mutex = "free"
    /\ waiter = "none"
    /\ prev_checkpoint = NO_LAST_CHECKPOINT
    /\ saved = NothingSaved
    /\ index_pages = CanonicalIndexPages
    /\ indexPageMap = NoIndexPageMap
    /\ NoResume

LoadNext ==
    \/ MakeIndex
    \/ LoadIndex
    \/ ReplayIndexFromCheckpoint
    \/ RebuildIndex
    \/ MakeIndexLock
    \/ MakeIndexReady
    \/ CheckForSuspend
    \/ CheckForSuspendWait
    \/ WaitForResume
    \/ ReplayChapter
    \/ ReplayVolumeFinish
    \/ EmbedderSuspend
    \/ EmbedderResume
    \/ EmbedderFree
    \/ AdvanceChapter

LoadSpec == LoadInit /\ [][LoadNext]_vars

(***************************************************************************)
(* Properties of the serving index.  A request's effect is a function of   *)
(* the zone it runs on, so a property of "every request" is stated over    *)
(* every reachable zone and every request and master-index answer.         *)
(***************************************************************************)
AllRequests ==
    [chunkName : Names, action : RequestActions, update : BOOLEAN,
     requeued : BOOLEAN]

\* the zone after a request whose effect is d
ZoneAfter(z, d) ==
    [z EXCEPT !.entries = d.entries, !.openChapter = d.openChapter,
              !.sparseCache = d.sparseCache]

Query(name, update, requeued) ==
    [chunkName |-> name, action |-> REQUEST_QUERY, update |-> update,
     requeued |-> requeued]

Delete(name) ==
    [chunkName |-> name, action |-> REQUEST_DELETE, update |-> FALSE,
     requeued |-> FALSE]

\* what a QUERY of the name would report on zone z
QueryLocation(z, name) ==
    dispatch_index_zone_request(z, Query(name, FALSE, FALSE), UDS_SUCCESS).location

\* the name is recorded in the open chapter or in a closed chapter from
\* `since` on (a closed chapter v < newest lives in physical slot v mod n)
RecordedSince(name, since) ==
    \/ name \in openChapter
    \/ \E v \in 0 .. (newest_virtual_chapter - 1) :
           /\ v >= since
           /\ name \in volume[map_to_physical_chapter(geometry, v)]

\* C1: every record a master-index lookup reports as found has
\* oldest_vcn <= virtual_chapter <= newest_vcn; and a name indexed in chapter
\* V and not touched again (so recorded in no chapter after V) is reported
\* not-found by a QUERY once newest_vcn >= V + chapters_per_volume.
C1_FoundRecordsInWindow ==
    /\ \A name \in Names :
           LET record == getMasterIndexRecord(master_index, name)
           IN  record.isFound =>
                   /\ oldest_virtual_chapter <= record.virtualChapter
                   /\ record.virtualChapter <= newest_virtual_chapter
    /\ \A name \in Names :
           ~RecordedSince(name, newest_virtual_chapter
                                    - geometry.chapters_per_volume + 1)
               => \A update, requeued \in BOOLEAN :
                      dispatch_index_zone_request(ZoneView,
                          Query(name, update, requeued), UDS_SUCCESS).location
                          = LOC_UNAVAILABLE

\* C1 witness: a name was recorded in chapter V = newest - chapters_per_volume,
\* in no chapter since, and the open chapter is chapters_per_volume past V
C1_Witness ==
    /\ newest_virtual_chapter >= geometry.chapters_per_volume
    /\ \E name \in Names :
           /\ name \in volume[map_to_physical_chapter(geometry,
                                  newest_virtual_chapter)]
           /\ ~RecordedSince(name, newest_virtual_chapter
                                       - geometry.chapters_per_volume + 1)
           /\ QueryLocation(ZoneView, name) = LOC_UNAVAILABLE

IndexOrUpdate(name, action, requeued) ==
    [chunkName |-> name, action |-> action, update |-> FALSE,
     requeued |-> requeued]

IndexCase(name) ==
    LET d == dispatch_index_zone_request(ZoneView,
                 IndexOrUpdate(name, REQUEST_INDEX, FALSE), UDS_SUCCESS)
    IN  IF d.mutation = "put" /\ d.location = LOC_IN_SPARSE THEN "sparse cache"
        ELSE IF d.mutation = "put" THEN "new"
        ELSE IF d.mutation = "set_chapter" /\ d.found THEN "older chapter"
        ELSE IF d.mutation = "set_chapter" THEN "overflow record"
        ELSE "open chapter"

PresentInIndex(z, name) ==
    LET record == getMasterIndexRecord(z.entries, name)
    IN  /\ record.isFound
        /\ record.isCollision
              \/ getRecordFromZone(z, name, record.virtualChapter)

\* the QUERY that follows a successful DELETE of the name reports not-found
DeleteThenQueryNotFound(name) ==
    LET d == dispatch_index_zone_request(ZoneView, Delete(name), UDS_SUCCESS)
    IN  (d.result = UDS_SUCCESS) =>
            QueryLocation(ZoneAfter(ZoneView, d), name) = LOC_UNAVAILABLE

\* no other indexed name shares the name's hint in the chapter of its record
NoHintSharedInChapter(name) ==
    \A other \in Names \ {name} :
        ~ /\ Hint(other) = Hint(name)
          /\ PresentInIndex(ZoneView, other)
          /\ getMasterIndexRecord(master_index, other).virtualChapter
                 = getMasterIndexRecord(master_index, name).virtualChapter

NoHintShared(name) ==
    LET record == getMasterIndexRecord(master_index, name)
    IN  {e \in master_index : e.hint = Hint(name)} = {RecordEntry(record)}

\* no chapter held in the sparse cache records the name
NotInSparseCache(z, name) ==
    ~searchSparseCacheInZone(z, name, UINT64_MAX)

C5_QueryFrame ==
    \A name \in Names, update, requeued \in BOOLEAN,
       outcome \in MasterIndexOutcomes :
        LET d == dispatch_index_zone_request(ZoneView,
                     Query(name, update, requeued), outcome)
            nowhere == ~d.record.isFound /\ ~d.found
            overflow == d.record.isFound /\ d.record.isCollision /\ ~d.found
        IN  (~update \/ nowhere \/ overflow) =>
                /\ d.entries = master_index
                /\ d.openChapter = openChapter

\* C5 witness: some name has an overflow collision record (not confirmed by
\* its chapter) and another is found nowhere
C5_Witness ==
    /\ \E name \in Names :
           LET record == getMasterIndexRecord(master_index, name)
           IN  /\ record.isFound /\ record.isCollision
               /\ record.virtualChapter # zone.newestVirtualChapter
               /\ ~getRecordFromZone(ZoneView, name, record.virtualChapter)
    /\ \E name \in Names :
           /\ ~getMasterIndexRecord(master_index, name).isFound
           /\ ~searchSparseCacheInZone(ZoneView, name, UINT64_MAX)

\* the requests that can reach set_chapter or put
UpdatingRequests ==
    {r \in AllRequests :
        \/ r.action \in {REQUEST_INDEX, REQUEST_UPDATE}
        \/ r.action = REQUEST_QUERY /\ r.update}

\* C6: when set_chapter or put answers OVERFLOW during an INDEX, UPDATE or
\* QUERY-with-update request, the request returns success, nothing is put
\* in the open chapter, and the open chapter is left as it was.
C6_OverflowSwallowed ==
    \A request \in UpdatingRequests :
        LET d == dispatch_index_zone_request(ZoneView, request, UDS_OVERFLOW)
        IN  (d.mutation_result = UDS_OVERFLOW) =>
                /\ d.result = UDS_SUCCESS
                /\ d.openChapter = openChapter
                /\ d.entries = master_index

\* C6 witness: with a non-empty open chapter that lacks the name, set_chapter
\* of a record in an older chapter and put of a new record both answer
\* OVERFLOW
C6_Witness ==
    /\ openChapter # {}
    /\ \E request \in UpdatingRequests :
           LET d == dispatch_index_zone_request(ZoneView, request, UDS_OVERFLOW)
           IN  /\ d.mutation = "set_chapter"
               /\ d.mutation_result = UDS_OVERFLOW
               /\ request.chunkName \notin openChapter
    /\ \E request \in UpdatingRequests :
           LET d == dispatch_index_zone_request(ZoneView, request, UDS_OVERFLOW)
           IN  /\ d.mutation = "put"
               /\ d.mutation_result = UDS_OVERFLOW
               /\ request.chunkName \notin openChapter

(***************************************************************************)
(* Properties of make_index.  A call has returned when pc is "ready" (the  *)
(* caller holds a usable index) or "failed".                               *)
(***************************************************************************)
Returned == pc \in {"ready", "failed"}

\* C2: in every state of a usable index the oldest chapter is not after the
\* newest one and the two are at most chapters_per_volume apart, whatever
\* boundaries (lowest <= highest) the volume reported to the load.
C2_ActiveChaptersBound ==
    (pc = "ready") =>
        /\ oldest_virtual_chapter <= newest_virtual_chapter
        /\ newest_virtual_chapter - oldest_virtual_chapter
               <= geometry.chapters_per_volume

\* the names the volume records in virtual chapter v
RecordedIn(v) == volume[map_to_physical_chapter(geometry, v)]

ActiveChapters == oldest_virtual_chapter .. (newest_virtual_chapter - 1)

SparseAtEnd(v) ==
    is_chapter_sparse(geometry, oldest_virtual_chapter,
                      newest_virtual_chapter, v)

\* the master index holds a record for the name: its collision record, or
\* the record of its address in a chapter that records the name
HoldsRecordFor(name) ==
    \E e \in master_index :
        /\ e.hint = Hint(name)
        /\ IF e.collision THEN e.name = name ELSE name \in RecordedIn(e.chapter)

\* make_index has just returned an index made by a replay of the volume in
\* which no record and no page went wrong
Replayed ==
    /\ pc = "ready"
    /\ loaded_type \in {LOAD_REBUILD, LOAD_REPLAY}
    /\ replay.caller # "none"
    /\ newest_virtual_chapter = replay.upto_vcn
    /\ faults = 0

\* the two halves of C7, the first for the names of the given chapters
NamesIndexedIn(chapters) ==
    \A name \in Names :
        /\ \A v \in chapters :
               (/\ name \in RecordedIn(v)
                /\ ~SparseAtEnd(v) \/ isMasterIndexSample(name))
                   => getMasterIndexRecord(master_index, name).isFound
        /\ (/\ ~isMasterIndexSample(name)
            /\ \E v \in ActiveChapters : name \in RecordedIn(v)
            /\ \A v \in ActiveChapters : name \in RecordedIn(v) => SparseAtEnd(v))
               => ~HoldsRecordFor(name)

\* the active chapters the replay read and the master index has room for
ReplayedChapters ==
    {v \in ActiveChapters :
        /\ v >= replay.from_vcn
        /\ v + geometry.chapters_per_volume > newest_virtual_chapter}

C9_RefusedBeforeReplay ==
    (observed.replay_required /\ ~allow_replay(load_type)) =>
        /\ observed.load_result = UDS_INDEX_NOT_SAVED_CLEANLY
        /\ boundaries = NoBoundaries
        /\ replay = NoReplay
        /\ lookupMode = LOOKUP_NORMAL
        /\ oldest_virtual_chapter = observed.loaded_oldest
        /\ newest_virtual_chapter = observed.loaded_newest
        /\ loaded_type = LOAD_UNDEFINED

C9_Witness ==
    /\ observed.replay_required
    /\ ~allow_replay(load_type)
    /\ pc = "failed"
    /\ result = UDS_INDEX_NOT_SAVED_CLEANLY
    /\ newest_virtual_chapter > 0
    /\ master_index # {}

\* C10: once load_index has returned, rebuild_index was attempted exactly
\* when the load type is REBUILD and load_index failed with an error other
\* than ENOMEM; after ENOMEM, or after any failure with load type LOAD,
\* make_index has failed with the error of load_index.
C10_RebuildAfterLoadError ==
    (observed.load_result # "none") =>
        /\ observed.rebuild_attempted <=>
               /\ load_type = LOAD_REBUILD
               /\ observed.load_result \notin {UDS_SUCCESS, ENOMEM}
        /\ (\/ observed.load_result = ENOMEM
            \/ load_type = LOAD_LOAD /\ observed.load_result # UDS_SUCCESS)
               => /\ ~observed.rebuild_attempted
                  /\ boundaries = NoBoundaries \/ replay.caller = "load_index"
                  /\ pc = "failed"
                  /\ result = observed.load_result

C10_Witness ==
    /\ observed.rebuild_attempted
    /\ observed.load_result = UDS_CORRUPT_COMPONENT
    /\ replay.caller = "rebuild_index"
    /\ pc = "ready"
    /\ loaded_type = LOAD_REBUILD

\* the replay that load_index ran was stopped by FREEING
LoadReplayShutDown == observed.load_result = UDS_SHUTTINGDOWN

\* the replay that rebuild_index ran was stopped by FREEING
RebuildReplayShutDown ==
    /\ pc = "failed"
    /\ replay.caller = "rebuild_index"
    /\ result = UDS_SHUTTINGDOWN

\* C11: when FREEING stops the replay with UDS_SHUTTINGDOWN, make_index
\* fails: no rebuild is started after it, no index is returned and the load
\* context is not made READY, for either load type.
C11_FreeingFailsMakeIndex ==
    /\ LoadReplayShutDown =>
           /\ ~observed.rebuild_attempted
           /\ pc = "failed"
           /\ result = UDS_SHUTTINGDOWN
           /\ load_context = INDEX_FREEING
    /\ (replay.caller = "rebuild_index" /\ result = UDS_SHUTTINGDOWN
            /\ Returned) =>
           /\ pc = "failed"
           /\ load_context = INDEX_FREEING

\* C11 witness: the rebuild's replay was stopped and make_index failed
C11_Witness ==
    /\ RebuildReplayShutDown
    /\ load_context = INDEX_FREEING
    /\ replay.vcn > replay.from_vcn

\* ---------------------------------------------------------------------
\* make_index's last step with a load context

MakeIndexSucceededWithContext == pc = "ready" /\ load_context # "NULL"

\* C13: when make_index succeeds with a load context, the status is READY on
\* return whatever it was before, nobody who asked for a suspend is left
\* waiting on the condition, the mutex is free again, and the write of READY
\* is made by a step that holds the mutex
C13_ReadyUnderMutexAndBroadcast ==
    /\ [](MakeIndexSucceededWithContext =>
              /\ load_context = INDEX_READY
              /\ waiter # "waiting"
              /\ mutex = "free")
    /\ [][(pc' = "ready" /\ load_context' # load_context) =>
              /\ mutex = "make_index"
              /\ load_context' = INDEX_READY]_vars

\* make_index found the status SUSPENDING, with the embedder waiting for the
\* suspend, and its broadcast woke the embedder
C13_Witness ==
    /\ MakeIndexSucceededWithContext
    /\ load_context = INDEX_READY
    /\ waiter = "woken"
    /\ ~observed.suspended

\* ---------------------------------------------------------------------
\* the suspend check of replay_volume

\* the suspend check is running (mutex held) or its wait is over
SuspendCheckSeesFreeing ==
    /\ pc \in {"check_for_suspend", "wait_for_resume"}
    /\ load_context = INDEX_FREEING

\* C17: when the status is FREEING as the suspend check of a chapter
\* boundary runs, whether FREEING was set on a suspended replay or directly,
\* the next step of the replay is the return of UDS_SHUTTINGDOWN, and neither
\* the chapter of that boundary nor a later one is replayed
C17_FreeingStopsReplay ==
    [][(SuspendCheckSeesFreeing /\ pc' # pc) =>
           /\ result' = UDS_SHUTTINGDOWN
           /\ replay' = replay
           /\ master_index' = master_index]_vars

\* a suspended replay was given up before its last chapter and returned
\* UDS_SHUTTINGDOWN with chapters left
C17_Witness ==
    /\ observed.suspended
    /\ load_context = INDEX_FREEING
    /\ result = UDS_SHUTTINGDOWN
    /\ replay.vcn < replay.upto_vcn
    /\ pc \in {"failed", "rebuild_index"}

\* C18: while the status is SUSPENDED the replay thread takes no step: the
\* only steps are the embedder's change of the status to OPENING or FREEING,
\* and the index, the replay position and the thread's place stay as they
\* are; the thread reads and writes the status only with the mutex held; and
\* the mutex is free again wherever check_for_suspend has returned
C18_SuspendedMakesNoProgress ==
    /\ [][(load_context = INDEX_SUSPENDED) =>
              /\ load_context' \in {INDEX_OPENING, INDEX_FREEING}
              /\ UNCHANGED <<indexVars, replay, pc, lookupMode, result>>]_vars
    /\ [][(load_context' = INDEX_SUSPENDED /\ load_context # INDEX_SUSPENDED)
              => mutex = "make_index"]_vars
    /\ [](pc = "check_for_suspend" => mutex = "make_index")
    /\ [](mutex # "free" => pc \in {"check_for_suspend", "make_index_ready"})

\* the replay is suspended before a chapter it has still to replay; the
\* embedder that asked for it has been woken and the mutex is free
C18_Witness ==
    /\ load_context = INDEX_SUSPENDED
    /\ pc = "wait_for_resume"
    /\ replay.vcn < replay.upto_vcn
    /\ waiter = "woken"
    /\ mutex = "free"

\* ---------------------------------------------------------------------
\* a load that is suspended and resumed: the thread of make_index, fairly
\* scheduled and meeting no replay error, and an embedder that asks for
\* suspends and answers them with OPENING but does not give the load up

ReplayChapterNoError == ReplayChapter /\ faults' = faults

LoadThread ==
    \/ MakeIndex
    \/ LoadIndex
    \/ ReplayIndexFromCheckpoint
    \/ RebuildIndex
    \/ MakeIndexLock
    \/ MakeIndexReady
    \/ CheckForSuspend
    \/ CheckForSuspendWait
    \/ WaitForResume
    \/ ReplayChapterNoError
    \/ ReplayVolumeFinish

SuspendNext ==
    \/ LoadThread
    \/ EmbedderSuspend
    \/ EmbedderResume

\* the loads the embedder watches: a saved index opened with a load context
SuspendInit == LoadInit /\ load_context # "NULL" /\ load_type # LOAD_CREATE

\* the thread of make_index is scheduled: none of its steps from the replay
\* loop to the return stays enabled for ever without being taken.  The wait
\* of check_for_suspend is enabled only once the status is OPENING or FREEING
ThreadFairness ==
    /\ WF_vars(CheckForSuspend)
    /\ WF_vars(CheckForSuspendWait)
    /\ WF_vars(WaitForResume)
    /\ WF_vars(ReplayChapterNoError)
    /\ WF_vars(ReplayVolumeFinish)
    /\ WF_vars(MakeIndexLock)
    /\ WF_vars(MakeIndexReady)

SuspendSpec == SuspendInit /\ [][SuspendNext]_vars /\ ThreadFairness

SuspendRequested ==
    /\ load_context = INDEX_SUSPENDING
    /\ pc = "replay_volume"
    /\ replay.vcn < replay.upto_vcn

Resumed == pc = "wait_for_resume" /\ load_context = INDEX_OPENING

LoadFinishedReady == pc = "ready" /\ load_context = INDEX_READY

SaveIndex_no_restore ==
    /\ pc = "ready"
    /\ \E finished \in {UDS_SUCCESS, UDS_BAD_STATE}, persisted \in {UDS_SUCCESS, UDS_CORRUPT_COMPONENT} :
           LET begun == begin_save(last_checkpoint, newest_virtual_chapter)
               code == IF finished # UDS_SUCCESS THEN finished ELSE persisted
           IN  /\ result' = code
               /\ IF finished # UDS_SUCCESS
                  THEN UNCHANGED <<last_checkpoint, prev_checkpoint,
                                   has_saved_open_chapter>>
                  ELSE /\ prev_checkpoint' = begun.prev_checkpoint
                       /\ last_checkpoint' = begun.last_checkpoint
                       /\ has_saved_open_chapter' =
                              IF persisted # UDS_SUCCESS
                              THEN has_saved_open_chapter ELSE TRUE
               /\ saved' = [result |-> code,
                            last_checkpoint |-> last_checkpoint,
                            has_saved_open_chapter |-> has_saved_open_chapter,
                            open_chapter_number |-> newest_virtual_chapter]
    /\ UNCHANGED <<indexVars, pc, load_type, load_context, lookupMode,
                   loaded_type, replay, observed, boundaries, faults, mutex,
                   waiter>>
    /\ UNCHANGED <<pageVars, resumeVars>>

\* lines 307-327: save_index.  finish_checkpointing may fail; then begin_save
\* (lines 767-779) rotates the checkpoints for the open chapter; then
\* save_index_state may fail, and the last checkpoint is put back
SaveIndex ==
    /\ pc = "ready"
    /\ \E finished \in {UDS_SUCCESS, UDS_BAD_STATE}, persisted \in {UDS_SUCCESS, UDS_CORRUPT_COMPONENT} :
           LET begun == begin_save(last_checkpoint, newest_virtual_chapter)
               code == IF finished # UDS_SUCCESS THEN finished ELSE persisted
           IN  /\ result' = code
               /\ IF finished # UDS_SUCCESS
                  THEN UNCHANGED <<last_checkpoint, prev_checkpoint,
                                   has_saved_open_chapter>>
                  ELSE /\ prev_checkpoint' = begun.prev_checkpoint
                       /\ last_checkpoint' =
                              IF persisted # UDS_SUCCESS
                              THEN begun.prev_checkpoint
                              ELSE begun.last_checkpoint
                       /\ has_saved_open_chapter' =
                              IF persisted # UDS_SUCCESS
                              THEN has_saved_open_chapter ELSE TRUE
               /\ saved' = [result |-> code,
                            last_checkpoint |-> last_checkpoint,
                            has_saved_open_chapter |-> has_saved_open_chapter,
                            open_chapter_number |-> newest_virtual_chapter]
    /\ UNCHANGED <<indexVars, pc, load_type, load_context, lookupMode,
                   loaded_type, replay, observed, boundaries, faults, mutex,
                   waiter>>
    /\ UNCHANGED <<pageVars, resumeVars>>

\* an index in service whose open chapter is any chapter of the counter's
\* range and whose last save or checkpoint, if any, was at an earlier
\* open chapter or at this one
SaveInit ==
    /\ geometry = SparseGeometry
    /\ zone_count = 1
    /\ master_index = {}
    /\ newest_virtual_chapter \in 0 .. UINT64_MAX
    /\ master_index_open = newest_virtual_chapter
    /\ oldest_virtual_chapter =
           IF newest_virtual_chapter < geometry.chapters_per_volume
           THEN 0
           ELSE newest_virtual_chapter - geometry.chapters_per_volume + 1
    /\ zone = setActiveChapters(oldest_virtual_chapter, newest_virtual_chapter)
    /\ openChapter = {}
    /\ volume = [p \in PhysicalChapters |-> {}]
    /\ sparseCache = <<>>
    /\ requests_changed = 0
    /\ pc = "ready"
    /\ load_type = LOAD_CREATE
    /\ load_context = INDEX_READY
    /\ lookupMode = LOOKUP_NORMAL
    /\ loaded_type = LOAD_CREATE
    /\ result = UDS_SUCCESS
    /\ last_checkpoint \in
           {begin_save(NO_LAST_CHECKPOINT, n).last_checkpoint :
                n \in 0 .. newest_virtual_chapter}
    /\ has_saved_open_chapter = FALSE
    /\ replay = NoReplay
    /\ observed = NothingObserved
    /\ boundaries = NoBoundaries
    /\ faults = 0
    /\ mutex = "free"
    /\ waiter = "none"
    /\ prev_checkpoint = NO_LAST_CHECKPOINT
    /\ saved = NothingSaved
    /\ index_pages = CanonicalIndexPages
    /\ indexPageMap = NoIndexPageMap
    /\ NoResume

SaveNext ==
    \/ SaveIndex
    \/ AdvanceChapter

SaveSpec == SaveInit /\ [][SaveNext]_vars

SaveSucceeded == saved.result = UDS_SUCCESS

SaveFailed == saved.result \notin {"none", UDS_SUCCESS}

\* C14: after a save_index that succeeded, last_checkpoint is the chapter
\* before the open chapter (the sentinel when the open chapter is 0),
\* prev_checkpoint is the last_checkpoint from before the call and
\* has_saved_open_chapter is true; after one that failed, last_checkpoint
\* and has_saved_open_chapter are what they were before the call
C14_SaveTracksCheckpoints ==
    /\ SaveSucceeded =>
           /\ last_checkpoint = IF saved.open_chapter_number = 0
                                THEN NO_LAST_CHECKPOINT
                                ELSE saved.open_chapter_number - 1
           /\ prev_checkpoint = saved.last_checkpoint
           /\ has_saved_open_chapter
    /\ SaveFailed =>
           /\ last_checkpoint = saved.last_checkpoint
           /\ has_saved_open_chapter = saved.has_saved_open_chapter

\* a save failed after an earlier one had succeeded at an earlier chapter:
\* the checkpoint of the earlier save is back in place
C14_Witness ==
    /\ SaveFailed
    /\ has_saved_open_chapter
    /\ last_checkpoint # NO_LAST_CHECKPOINT
    /\ prev_checkpoint = last_checkpoint
    /\ last_checkpoint #
           begin_save(last_checkpoint, newest_virtual_chapter).last_checkpoint

\* C15: for every open chapter number N >= 1 of the 64-bit counter, the
\* last_checkpoint a successful save records is not the sentinel, and
\* load_index takes N - 1, not 0, as the last checkpoint chapter
C15_CheckpointDistinctFromSentinel ==
    (SaveSucceeded /\ saved.open_chapter_number >= 1) =>
        /\ last_checkpoint # NO_LAST_CHECKPOINT
        /\ checkpoint_chapter(last_checkpoint) = saved.open_chapter_number - 1

\* a save at an open chapter above 0 recorded a checkpoint that load_index
\* reads back as the chapter before the open one
C15_Witness ==
    /\ SaveSucceeded
    /\ saved.open_chapter_number >= 1
    /\ last_checkpoint # NO_LAST_CHECKPOINT
    /\ checkpoint_chapter(last_checkpoint) = saved.open_chapter_number - 1

(***************************************************************************)
(* Replaying a range again.  An index is opened without a load context     *)
(* from a volume of up to MaxReplayRecords records, the replay meeting no  *)
(* failure; the range is then replayed once more over the returned index.  *)
(***************************************************************************)
ReplayTwiceInit ==
    \E vol \in Volumes(MaxReplayRecords) :
        /\ geometry = SparseGeometry
        /\ zone_count = 1
        /\ master_index = {}
        /\ master_index_open = 0
        /\ oldest_virtual_chapter = 0
        /\ newest_virtual_chapter = 0
        /\ zone = setActiveChapters(0, 0)
        /\ openChapter = {}
        /\ volume = vol
        /\ sparseCache = <<>>
        /\ requests_changed = 0
        /\ pc = "make_index"
        /\ load_type = LOAD_REBUILD
        /\ load_context = "NULL"
        /\ lookupMode = LOOKUP_NORMAL
        /\ loaded_type = LOAD_UNDEFINED
        /\ result = UDS_SUCCESS
        /\ last_checkpoint = NO_LAST_CHECKPOINT
        /\ has_saved_open_chapter = FALSE
        /\ replay = NoReplay
        /\ observed = NothingObserved
        /\ boundaries = NoBoundaries
        /\ faults = 0
        /\ mutex = "free"
        /\ waiter = "none"
        /\ prev_checkpoint = NO_LAST_CHECKPOINT
        /\ saved = NothingSaved
        /\ index_pages = CanonicalIndexPages
        /\ indexPageMap = NoIndexPageMap
    /\ NoResume

ReplayTwiceNext ==
    \/ MakeIndex
    \/ LoadIndex
    \/ ReplayIndexFromCheckpoint
    \/ RebuildIndex
    \/ ReplayChapterNoError
    \/ ReplayVolumeFinish

ReplayTwiceSpec == ReplayTwiceInit /\ [][ReplayTwiceNext]_vars

\* make_index has just returned an index whose replay met no failure
ReplayedOnce ==
    /\ pc = "ready"
    /\ faults = 0
    /\ replay.caller # "none"
    /\ replay.vcn = replay.upto_vcn
    /\ newest_virtual_chapter = replay.upto_vcn

\* the master index after the range is replayed once more
ReplayedTwice ==
    replay_volume(geometry, master_index, volume, replay.from_vcn,
                  replay.upto_vcn)

\* C16: replay_volume run again over the range it has just replayed, on the
\* same volume, leaves the master index with the same entries: the same
\* records at the same chapters with the same collision bits
C16_ReplayIdempotent == ReplayedOnce => (ReplayedTwice = master_index)

\* a replay of a chapter with records that a second replay leaves as it is
C16_Witness ==
    /\ ReplayedOnce
    /\ replay.upto_vcn > replay.from_vcn
    /\ \E e \in master_index : e.chapter >= replay.from_vcn
    /\ ReplayedTwice = master_index

\* ---------------------------------------------------------------------
\* the window and the start of a replay from the checkpoint

\* replay_index_from_checkpoint found a volume that is not empty and its
\* replay is under way
ReplayingFromCheckpoint ==
    /\ replay.caller = "load_index"
    /\ pc \in {"replay_volume", "check_for_suspend", "wait_for_resume",
               "replay_chapter"}

\* C19: with boundaries (lowest, highest) of a volume that is not empty,
\* replay_index_from_checkpoint makes highest + 1 the newest chapter and
\* lowest the oldest, or lowest + 1 exactly when highest + 1 is lowest +
\* chapters_per_volume; the replay starts at the later of the oldest chapter
\* and the last checkpoint chapter, which is 0 when last_checkpoint is the
\* sentinel; and no chapter below that start is replayed
C19_WindowAndStartOfReplay ==
    ReplayingFromCheckpoint =>
        LET lowest == boundaries.lowest
            highest == boundaries.highest
            full == (highest + 1 = lowest + geometry.chapters_per_volume)
            checkpoint == IF last_checkpoint = NO_LAST_CHECKPOINT THEN 0
                          ELSE last_checkpoint
            start == IF checkpoint > oldest_virtual_chapter THEN checkpoint
                     ELSE oldest_virtual_chapter
        IN  /\ boundaries.result = UDS_SUCCESS
            /\ ~boundaries.is_empty
            /\ newest_virtual_chapter = highest + 1
            /\ oldest_virtual_chapter = IF full THEN lowest + 1 ELSE lowest
            /\ replay.from_vcn = start
            /\ replay.upto_vcn = newest_virtual_chapter
            /\ replay.vcn >= start
            /\ master_index_open >= start

\* a replay from a checkpoint above the oldest chapter of a full ring has
\* replayed a chapter
C19_Witness ==
    /\ ReplayingFromCheckpoint
    /\ boundaries.highest + 1
           = boundaries.lowest + geometry.chapters_per_volume
    /\ last_checkpoint # NO_LAST_CHECKPOINT
    /\ last_checkpoint > oldest_virtual_chapter
    /\ replay.vcn > replay.from_vcn

\* ---------------------------------------------------------------------
\* the open chapter and the window

\* the volume reported no boundaries (a created index, a load without
\* replay), reported itself empty, or reported boundaries that span at most
\* chapters_per_volume chapters
BoundariesSpanVolume ==
    \/ boundaries = NoBoundaries
    \/ boundaries.is_empty
    \/ /\ boundaries.result = UDS_SUCCESS
       /\ boundaries.lowest <= boundaries.highest
       /\ boundaries.highest - boundaries.lowest + 1
              <= geometry.chapters_per_volume

\* C20: in every state of an index that was created, or replayed or rebuilt
\* from boundaries spanning at most chapters_per_volume chapters, and then
\* advanced any number of times, newest - oldest is below
\* chapters_per_volume and no chapter of the window lies on the physical
\* chapter of the open chapter
C20_OpenChapterShadowsNothing ==
    (pc # "failed" /\ BoundariesSpanVolume) =>
        /\ oldest_virtual_chapter <= newest_virtual_chapter
        /\ newest_virtual_chapter - oldest_virtual_chapter
               < geometry.chapters_per_volume
        /\ \A v \in oldest_virtual_chapter .. (newest_virtual_chapter - 1) :
               ~are_same_physical_chapter(geometry, v, newest_virtual_chapter)

\* a replay or rebuild from boundaries that fill the ring returned an index
\* whose oldest chapter is the one after the lowest
C20_Witness ==
    /\ pc = "ready"
    /\ loaded_type \in {LOAD_REPLAY, LOAD_REBUILD}
    /\ boundaries.result = UDS_SUCCESS
    /\ ~boundaries.is_empty
    /\ boundaries.highest - boundaries.lowest + 1 = geometry.chapters_per_volume
    /\ oldest_virtual_chapter = boundaries.lowest + 1
    /\ newest_virtual_chapter = boundaries.highest + 1

(***************************************************************************)
(* Properties of replay_record and of the errors of a replay.              *)
(***************************************************************************)
\* the replay is about to read a chapter
ReplayingChapter ==
    /\ pc \in {"replay_volume", "check_for_suspend", "replay_chapter"}
    /\ replay.vcn < replay.upto_vcn

\* the row of the decision table a record falls in
ReplayRecordCase(name, virtual_chapter, will_be_sparse_chapter) ==
    LET record == getMasterIndexRecord(master_index, name)
    IN  IF will_be_sparse_chapter /\ ~isMasterIndexSample(name) THEN "skip"
        ELSE IF ~record.isFound THEN "not found"
        ELSE IF record.isCollision /\ record.virtualChapter = virtual_chapter
        THEN "collision, same chapter"
        ELSE IF record.isCollision THEN "collision, other chapter"
        ELSE IF record.virtualChapter = virtual_chapter
        THEN "hint, same chapter"
        ELSE IF name \in volume[map_to_physical_chapter(geometry,
                                                        record.virtualChapter)]
        THEN "hint, confirmed"
        ELSE "hint, not confirmed"

\* C22: replay_record follows the decision table: a record of a chapter that
\* will be sparse is skipped unless the name is a sample; a collision record
\* in the same chapter is left as it is; a collision record in another
\* chapter has its chapter set; a non-collision record in the same chapter
\* gets a new record put; a non-collision record in another chapter has its
\* chapter set if the volume confirms the name in the recorded chapter and
\* gets a new record put otherwise; a name that is not found is put.
\* set_chapter is never applied to a record that was not found.
C22_ReplayRecordDecisionTable ==
    \A name \in Names, virtual_chapter \in 0 .. MaxVcn,
       will_be_sparse_chapter \in BOOLEAN :
        LET record == getMasterIndexRecord(master_index, name)
            row == ReplayRecordCase(name, virtual_chapter,
                                    will_be_sparse_chapter)
            done == replay_record(geometry, master_index, volume, name,
                                  virtual_chapter, will_be_sparse_chapter,
                                  NoFault)
            set == (master_index \ {RecordEntry(record)})
                       \cup {[RecordEntry(record)
                                 EXCEPT !.chapter = virtual_chapter]}
            put == master_index
                       \cup {Entry(Hint(name), virtual_chapter, record.isFound,
                                   IF record.isFound THEN name ELSE NoName)}
        IN  /\ done.result = UDS_SUCCESS
            /\ row \in {"skip", "collision, same chapter"} =>
                   /\ done.entries = master_index
                   /\ done.mutation \in {"skip", "none"}
            /\ row \in {"collision, other chapter", "hint, confirmed"} =>
                   /\ done.mutation = "set_chapter"
                   /\ done.entries = set
            /\ row \in {"hint, same chapter", "hint, not confirmed",
                        "not found"} =>
                   /\ done.mutation = "put"
                   /\ done.entries = put
            /\ (done.mutation = "set_chapter") => record.isFound

\* the rows of the table that the records of the chapter about to be
\* replayed fall in
RowsOfChapter ==
    {ReplayRecordCase(name, replay.vcn,
                      is_chapter_sparse(geometry, replay.from_vcn,
                                        replay.upto_vcn, replay.vcn)) :
        name \in volume[map_to_physical_chapter(geometry, replay.vcn)]}

\* C22 witness: the chapter about to be replayed holds a name whose hint
\* points at another chapter that the volume confirms, and for another name
\* the hint points at a chapter that does not hold it
C22_Witness ==
    /\ ReplayingChapter
    /\ "hint, confirmed" \in RowsOfChapter
    /\ \E name \in Names :
           ReplayRecordCase(name, replay.vcn, FALSE) = "hint, not confirmed"

\* the chapter about to be replayed: its records, whether it will be sparse,
\* and the master index once the chapter is declared open
ChapterRecords == volume[map_to_physical_chapter(geometry, replay.vcn)]

ChapterWillBeSparse ==
    is_chapter_sparse(geometry, replay.from_vcn, replay.upto_vcn, replay.vcn)

ChapterOpened == setMasterIndexOpenChapter(geometry, master_index, replay.vcn)

\* the master index after the given records of the chapter were replayed
\* without error
AfterRecords(records) ==
    replay_records(geometry, ChapterOpened, volume, records, replay.vcn,
                   ChapterWillBeSparse, NoFault).entries

\* the records of the chapter that come before the name
RecordsBefore(name) == {m \in ChapterRecords : m < name}

\* does the replay of the chapter make the call that the fault is about
FaultIsMet(fault) ==
    LET record == getMasterIndexRecord(AfterRecords(RecordsBefore(fault.name)),
                                       fault.name)
        replayed == ~(ChapterWillBeSparse /\ ~isMasterIndexSample(fault.name))
        unchanged == /\ record.isFound /\ record.isCollision
                     /\ record.virtualChapter = replay.vcn
    IN  CASE fault.at \in {"index_page", "record_page"} -> TRUE
          [] fault.at = "lookup" -> replayed
          [] fault.at = "page_cache" ->
                 /\ replayed
                 /\ record.isFound /\ ~record.isCollision
                 /\ record.virtualChapter # replay.vcn
          [] fault.at = "record" -> replayed /\ ~unchanged
          [] OTHER -> FALSE

BenignFault(fault) ==
    /\ fault.at = "record"
    /\ fault.outcome \in {UDS_DUPLICATE_NAME, UDS_OVERFLOW}

\* what the replay of the chapter does when the fault happens
ErrorPolicy(fault) ==
    LET done == replay_chapter(geometry, master_index, volume, replay.from_vcn,
                               replay.upto_vcn, replay.vcn, fault)
    IN  IF BenignFault(fault)
        THEN /\ done.result = UDS_SUCCESS
             /\ done.entries = AfterRecords(ChapterRecords \ {fault.name})
        ELSE IF FaultIsMet(fault)
        THEN /\ done.result = fault.outcome
             /\ done.entries =
                    IF fault.at \in {"index_page", "record_page"}
                    THEN ChapterOpened
                    ELSE AfterRecords(RecordsBefore(fault.name))
        ELSE /\ done.result = UDS_SUCCESS
             /\ done.entries = AfterRecords(ChapterRecords)

\* C23: DUPLICATE_NAME and OVERFLOW answered by the master index for a
\* record never stop the replay: the record is skipped and the replay goes
\* on with the next record.  Any other error (of the lookup, of the search
\* of the volume page cache, of a page read, of set_chapter or put) ends
\* replay_volume at once with that error: the records after it are not
\* replayed, the replay position stays where it is and the call returns.
C23_ReplayErrorPolicy ==
    /\ [](ReplayingChapter =>
              \A fault \in ChapterFaults(ChapterRecords) : ErrorPolicy(fault))
    /\ [][ReplayChapter =>
              \/ /\ replay' = [replay EXCEPT !.vcn = @ + 1]
                 /\ pc' = "replay_volume"
                 /\ \E skipped \in ChapterRecords \cup {NoName} :
                        master_index' = AfterRecords(ChapterRecords \ {skipped})
              \/ /\ replay' = replay
                 /\ pc' \in {"failed", "rebuild_index"}
                 /\ result' \notin {UDS_SUCCESS, UDS_DUPLICATE_NAME,
                                    UDS_OVERFLOW}
                 /\ faults' = faults + 1]_vars

\* C23 witness: a rebuild failed at a record that is not the first of its
\* chapter: the master index holds what the records before it gave, and not
\* what the whole chapter would have given
C23_Witness ==
    /\ pc = "failed"
    /\ replay.caller = "rebuild_index"
    /\ result = UDS_BAD_STATE
    /\ \E name \in ChapterRecords :
           /\ RecordsBefore(name) # {}
           /\ master_index = AfterRecords(RecordsBefore(name))
           /\ master_index # ChapterOpened
           /\ master_index # AfterRecords(ChapterRecords)

(***************************************************************************)
(* The index page map.  A rebuild of a volume of at most one record whose  *)
(* chapters have any index pages, in sequence or not.                      *)
(***************************************************************************)
PageMapInit ==
    \E vol \in Volumes(1), pages \in IndexPageLayouts :
        /\ geometry = SparseGeometry
        /\ zone_count = 1
        /\ master_index = {}
        /\ master_index_open = 0
        /\ oldest_virtual_chapter = 0
        /\ newest_virtual_chapter = 0
        /\ zone = setActiveChapters(0, 0)
        /\ openChapter = {}
        /\ volume = vol
        /\ sparseCache = <<>>
        /\ requests_changed = 0
        /\ pc = "make_index"
        /\ load_type = LOAD_REBUILD
        /\ load_context = "NULL"
        /\ lookupMode = LOOKUP_NORMAL
        /\ loaded_type = LOAD_UNDEFINED
        /\ result = UDS_SUCCESS
        /\ last_checkpoint = NO_LAST_CHECKPOINT
        /\ has_saved_open_chapter = FALSE
        /\ replay = NoReplay
        /\ observed = NothingObserved
        /\ boundaries = NoBoundaries
        /\ faults = 0
        /\ mutex = "free"
        /\ waiter = "none"
        /\ prev_checkpoint = NO_LAST_CHECKPOINT
        /\ saved = NothingSaved
        /\ index_pages = pages
        /\ indexPageMap = NoIndexPageMap
    /\ NoResume

PageMapNext ==
    \/ MakeIndex
    \/ LoadIndex
    \/ ReplayIndexFromCheckpoint
    \/ RebuildIndex
    \/ ReplayChapterNoError
    \/ ReplayVolumeFinish

PageMapSpec == PageMapInit /\ [][PageMapNext]_vars

\* index page k, counted from 1, starts where the page before it ended
FollowsPageBefore(pages, k) ==
    pages[k].lowest_list_number
        = (pages[k - 1].highest_list_number + 1) % (2 ^ UintBits)

\* the index pages that leave a gap or an overlap after the page before
PagesOutOfSequence(pages) ==
    {k \in 2 .. IndexPagesPerChapter : ~FollowsPageBefore(pages, k)}

\* C25: rebuild_index_page_map accepts a chapter only when every index page
\* after the first starts at the list that follows the highest list of the
\* page before it; with a gap or an overlap the result is CORRUPT_DATA, the
\* index page map is left as it was for that page and for every later page
\* of the chapter, no record of the chapter is replayed and the replay
\* returns.
C25_PageMapContiguity ==
    [][ReplayChapter =>
          LET chapter == map_to_physical_chapter(geometry, replay.vcn)
              bad == PagesOutOfSequence(index_pages)
              accepted == /\ pc' = "replay_volume"
                          /\ replay' = [replay EXCEPT !.vcn = @ + 1]
          IN  /\ accepted => (bad = {})
              /\ (bad # {}) =>
                     /\ result' = UDS_CORRUPT_DATA
                     /\ pc' \in {"failed", "rebuild_index"}
                     /\ replay' = replay
                     /\ master_index' = ChapterOpened
                     /\ \A k \in 1 .. IndexPagesPerChapter :
                            (\E b \in bad : b <= k) =>
                                indexPageMap'.entries[chapter][k]
                                    = indexPageMap.entries[chapter][k]]_vars

\* C25 witness: a rebuild failed with CORRUPT_DATA on a chapter that holds
\* a record, whose first index page starts at list 0 and whose second page
\* does not start after it: the map has the first page's highest list and
\* nothing of the second page, and the record was not replayed
C25_Witness ==
    LET chapter == map_to_physical_chapter(geometry, replay.vcn)
    IN  /\ pc = "failed"
        /\ result = UDS_CORRUPT_DATA
        /\ replay.caller = "rebuild_index"
        /\ index_pages[1].lowest_list_number = 0
        /\ index_pages[1].highest_list_number # 0
        /\ index_pages[2].lowest_list_number
               # index_pages[1].highest_list_number + 1
        /\ ChapterRecords # {}
        /\ master_index = {}
        /\ indexPageMap.entries[chapter][1]
               = index_pages[1].highest_list_number
        /\ indexPageMap.entries[chapter][2] = 0
        /\ index_pages[2].highest_list_number # 0

(***************************************************************************)
(* Properties of replay_volume.                                            *)
(***************************************************************************)
\* replay_volume is running
InReplayVolume ==
    pc \in {"replay_volume", "check_for_suspend", "wait_for_resume",
            "replay_chapter"}

\* the index page map holds the chapter's index pages as of virtual chapter
\* vcn
PageMapRebuiltFor(map, vcn) ==
    /\ map.last_update = vcn
    /\ \A k \in 1 .. IndexPagesPerChapter :
           map.entries[map_to_physical_chapter(geometry, vcn)][k]
               = index_pages[k].highest_list_number

\* C21: replay_volume(from) visits the virtual chapters from, from + 1, ...,
\* newest_vcn - 1 in ascending order, each once: the position starts at
\* from, moves by one chapter at a time and only below newest_vcn.  For each
\* chapter the master index is told that chapter as its open chapter and
\* the index page map is rebuilt before a record of the chapter is replayed.
\* After the last chapter the master index is told newest_vcn.  The replay
\* leaves the zone's open chapter, oldest_vcn and newest_vcn as they are.
C21_ReplayVisitsChaptersInOrder ==
    /\ [](InReplayVolume =>
              /\ replay.upto_vcn = newest_virtual_chapter
              /\ replay.from_vcn <= replay.vcn
              /\ (replay.from_vcn <= replay.upto_vcn)
                     => (replay.vcn <= replay.upto_vcn))
    /\ [][(replay' # replay) =>
              \/ /\ ~InReplayVolume
                 /\ pc' = "replay_volume"
                 /\ replay'.vcn = replay'.from_vcn
              \/ /\ ReplayChapter
                 /\ replay.vcn < replay.upto_vcn
                 /\ replay' = [replay EXCEPT !.vcn = @ + 1]]_vars
    /\ [][ReplayChapter =>
              /\ master_index_open' = replay.vcn
              /\ \E replayed \in SUBSET ChapterRecords :
                     master_index' = AfterRecords(replayed)
              /\ (master_index' # ChapterOpened \/ replay' # replay)
                     => PageMapRebuiltFor(indexPageMap', replay.vcn)]_vars
    /\ [][(InReplayVolume /\ ~InReplayVolume' /\ result' = UDS_SUCCESS) =>
              /\ ReplayVolumeFinish
              /\ (replay.from_vcn <= replay.upto_vcn)
                     => (replay.vcn = replay.upto_vcn)
              /\ master_index_open' = newest_virtual_chapter
              /\ master_index' =
                     setMasterIndexOpenChapter(geometry, master_index,
                                               newest_virtual_chapter)]_vars
    /\ [][InReplayVolume =>
              UNCHANGED <<openChapter, oldest_virtual_chapter,
                          newest_virtual_chapter, volume>>]_vars

\* C21 witness: a rebuild that met no failure has replayed two chapters or
\* more, the last of them holding records: the position is newest_vcn, the
\* master index has newest_vcn as its open chapter and the index page map
\* was last rebuilt for chapter newest_vcn - 1
C21_Witness ==
    /\ pc = "ready"
    /\ loaded_type = LOAD_REBUILD
    /\ faults = 0
    /\ replay.from_vcn + 2 <= replay.upto_vcn
    /\ replay.vcn = replay.upto_vcn
    /\ newest_virtual_chapter = replay.upto_vcn
    /\ master_index_open = newest_virtual_chapter
    /\ PageMapRebuiltFor(indexPageMap, newest_virtual_chapter - 1)
    /\ RecordedIn(newest_virtual_chapter - 1) # {}
    /\ master_index # {}

(***************************************************************************)
(* Properties of the boundaries of the volume and of the lookup mode.      *)
(***************************************************************************)
\* make_index goes on to its end with success, or stops with an error
ReturnsSuccess(type) ==
    /\ result' = UDS_SUCCESS
    /\ loaded_type' = type
    /\ pc' \in {"ready", "make_index_lock"}

ReturnsError(code) ==
    /\ result' = code
    /\ pc' \in {"failed", "rebuild_index"}

\* C24: on an empty volume replay_index_from_checkpoint returns
\* CORRUPT_COMPONENT when the in-memory newest_vcn is not zero, and
\* otherwise succeeds, leaving oldest_vcn and newest_vcn as they are and
\* replaying nothing; rebuild_index on an empty volume sets oldest_vcn =
\* newest_vcn = 0, replays nothing and succeeds with loaded_type EMPTY;
\* both return CORRUPT_COMPONENT when the volume reports lowest > highest.
C24_EmptyVolume ==
    /\ [][(ReplayIndexFromCheckpoint /\ boundaries'.result = UDS_SUCCESS) =>
              IF boundaries'.lowest > boundaries'.highest
              THEN /\ ReturnsError(UDS_CORRUPT_COMPONENT)
                   /\ UNCHANGED <<master_index, replay, indexPageMap>>
              ELSE boundaries'.is_empty =>
                      /\ IF newest_virtual_chapter # 0
                         THEN ReturnsError(UDS_CORRUPT_COMPONENT)
                         ELSE ReturnsSuccess(LOAD_REPLAY)
                      /\ UNCHANGED <<oldest_virtual_chapter,
                                     newest_virtual_chapter, master_index,
                                     replay, indexPageMap>>]_vars
    /\ [][(RebuildIndex /\ boundaries'.result = UDS_SUCCESS) =>
              IF boundaries'.lowest > boundaries'.highest
              THEN /\ result' = UDS_CORRUPT_COMPONENT
                   /\ pc' = "failed"
                   /\ UNCHANGED <<master_index, replay, indexPageMap>>
              ELSE boundaries'.is_empty =>
                      /\ oldest_virtual_chapter' = 0
                      /\ newest_virtual_chapter' = 0
                      /\ ReturnsSuccess(LOAD_EMPTY)
                      /\ master_index' =
                             setMasterIndexOpenChapter(geometry, master_index, 0)
                      /\ UNCHANGED <<replay, indexPageMap>>]_vars

\* C24 witness: the saved index had chapters and the volume is empty:
\* load_index failed with CORRUPT_COMPONENT, and rebuild_index returned an
\* empty index
C24_Witness ==
    /\ pc = "ready"
    /\ loaded_type = LOAD_EMPTY
    /\ boundaries.is_empty
    /\ observed.replay_required
    /\ observed.loaded_newest # 0
    /\ observed.load_result = UDS_CORRUPT_COMPONENT
    /\ observed.rebuild_attempted
    /\ oldest_virtual_chapter = 0
    /\ newest_virtual_chapter = 0
    /\ replay = NoReplay

\* C26: the lookup mode of the volume is REBUILD only while the boundaries
\* are looked for and the volume is replayed: on every return of
\* replay_index_from_checkpoint, rebuild_index and replay_volume (success,
\* page read error, corrupt page map, record replay error, shutdown during
\* a suspend) the lookup mode is what it was on entry.
C26_LookupModeRestored ==
    /\ [][(InReplayVolume /\ ~InReplayVolume') =>
              lookupMode' = replay.old_lookup_mode]_vars
    /\ [][((ReplayIndexFromCheckpoint \/ RebuildIndex) /\ ~InReplayVolume') =>
              lookupMode' = lookupMode]_vars
    /\ [][((ReplayIndexFromCheckpoint \/ RebuildIndex) /\ InReplayVolume') =>
              replay'.old_lookup_mode = lookupMode]_vars

\* C26 witness: a replay was suspended and then given up: replay_volume
\* has returned SHUTTINGDOWN, and the volume is still in the rebuild mode
C26_Witness ==
    /\ ~InReplayVolume
    /\ observed.suspended
    /\ result = UDS_SHUTTINGDOWN
    /\ replay.old_lookup_mode = LOOKUP_NORMAL
    /\ lookupMode = LOOKUP_FOR_REBUILD

(***************************************************************************)
(* Properties of the dispatcher and of remove_from_index_zone.             *)
(***************************************************************************)
\* the zone as a zone of an index of n zones
ZoneOf(n) == [ZoneView EXCEPT !.zone_count = n]

\* the name is a sample whose master-index record is of a chapter that is
\* sparse in the zone
SampleOfSparseChapter(z, name) ==
    LET record == getMasterIndexRecord(z.entries, name)
    IN  /\ isMasterIndexSample(name)
        /\ record.isFound
        /\ is_chapter_sparse(z.geometry, z.oldestVirtualChapter,
                             z.newestVirtualChapter, record.virtualChapter)

BarrierExpected(z, request) ==
    /\ z.zone_count = 1
    /\ z.geometry.sparse_chapters_per_volume > 0
    /\ ~request.requeued
    /\ SampleOfSparseChapter(z, request.chunkName)

\* the request's own search or remove, on the zone as given
Served(z, request, outcome) ==
    LET done == IF request.action = REQUEST_DELETE
                THEN remove_from_index_zone(z, request, outcome)
                ELSE search_index_zone(z, request, outcome)
    IN  <<done.entries, done.openChapter, done.location, done.result>>

\* C27: the dispatcher applies a synthesized sparse-cache barrier if and
\* only if the index has exactly one zone, the geometry is sparse, the
\* request is not requeued and triage reports the name as a sample whose
\* chapter is sparse in the zone; when applied, the barrier for that
\* chapter is executed on the zone before the request's own search or
\* remove; in every other case the dispatcher applies no barrier.
C27_BarrierIffSingleZoneSparseSample ==
    /\ [](\A n \in 1 .. MaxZones, request \in AllRequests,
             outcome \in MasterIndexOutcomes :
            LET z == ZoneOf(n)
                chapter == getMasterIndexRecord(z.entries, request.chunkName)
                               .virtualChapter
                cached == executeSparseCacheBarrierMessage(z.sparseCache,
                                                           chapter)
                done == dispatch_index_zone_request(z, request, outcome)
            IN  /\ (done.barrier # UINT64_MAX) <=> BarrierExpected(z, request)
                /\ IF BarrierExpected(z, request)
                   THEN /\ done.barrier = chapter
                        /\ done.sparseCache = cached
                        /\ chapter \in SeqRange(done.sparseCache)
                        /\ <<done.entries, done.openChapter, done.location,
                             done.result>>
                              = Served([z EXCEPT !.sparseCache = cached],
                                       request, outcome)
                   ELSE /\ done.sparseCache = z.sparseCache
                        /\ <<done.entries, done.openChapter, done.location,
                             done.result>> = Served(z, request, outcome))
    /\ [][(DispatchRequest /\ sparseCache' # sparseCache) =>
              \E name \in Names :
                  /\ geometry.sparse_chapters_per_volume > 0
                  /\ SampleOfSparseChapter(ZoneView, name)
                  /\ sparseCache' = executeSparseCacheBarrierMessage(
                         sparseCache,
                         getMasterIndexRecord(master_index, name)
                             .virtualChapter)]_vars

\* C27 witness: a barrier has been applied, and the zone holds a sample of
\* a sparse chapter, for which a request gets a barrier, a requeued request
\* does not, and a request to a zone of a two-zone index does not
C27_Witness ==
    /\ sparseCache # <<>>
    /\ \E request \in AllRequests :
           /\ BarrierExpected(ZoneOf(1), request)
           /\ dispatch_barrier(ZoneOf(1), request) # UINT64_MAX
           /\ dispatch_barrier(ZoneOf(1), [request EXCEPT !.requeued = TRUE])
                  = UINT64_MAX
           /\ dispatch_barrier(ZoneOf(MaxZones), request) = UINT64_MAX

\* a DELETE of the name
DeleteRequest(name, requeued) ==
    [chunkName |-> name, action |-> REQUEST_DELETE, update |-> FALSE,
     requeued |-> requeued]

\* the name's master-index record is a hint that its chapter does not confirm
StaleHint(z, name) ==
    LET record == getMasterIndexRecord(z.entries, name)
    IN  /\ record.isFound
        /\ ~record.isCollision
        /\ ~getRecordFromZone(z, name, record.virtualChapter)

\* the name has a collision record, and its chapter does not hold the name
UnconfirmedCollision(z, name) ==
    LET record == getMasterIndexRecord(z.entries, name)
    IN  /\ record.isFound
        /\ record.isCollision
        /\ ~getRecordFromZone(z, name, record.virtualChapter)

\* C28: a DELETE of a name with no master-index record, or whose
\* non-collision record is a stale hint, returns success, leaves the master
\* index and the open chapter unchanged and leaves request.location
\* UNAVAILABLE; a collision record is removed without confirmation by the
\* volume.
C28_DeleteOfAbsentOrStale ==
    \A name \in Names, requeued \in BOOLEAN, outcome \in MasterIndexOutcomes :
        LET z == ZoneView
            record == getMasterIndexRecord(z.entries, name)
            done == dispatch_index_zone_request(z, DeleteRequest(name, requeued),
                                                outcome)
        IN  /\ (~record.isFound \/ StaleHint(z, name)) =>
                   /\ done.result = UDS_SUCCESS
                   /\ done.entries = z.entries
                   /\ done.openChapter = z.openChapter
                   /\ done.location = LOC_UNAVAILABLE
                   /\ done.mutation = "none"
            /\ (record.isFound /\ record.isCollision) =>
                   /\ done.mutation = "remove"
                   /\ done.location
                          = computeIndexRegion(z, record.virtualChapter)
                   /\ (outcome = UDS_SUCCESS) =>
                          /\ done.entries
                                 = removeMasterIndexRecord(z.entries, record)
                          /\ ~getMasterIndexRecord(done.entries, name)
                                  .isCollision

\* C28 witness: the zone holds a stale hint for one name and, for another,
\* a collision record whose chapter does not hold the name; a third name
\* may have no record
C28_Witness ==
    /\ \E name \in Names : StaleHint(ZoneView, name)
    /\ \E name \in Names :
           /\ UnconfirmedCollision(ZoneView, name)
           /\ dispatch_index_zone_request(ZoneView, DeleteRequest(name, FALSE),
                                          UDS_SUCCESS).entries # master_index
    /\ \E name \in Names : ~getMasterIndexRecord(master_index, name).isFound

\* the DELETE of the name removes a master-index record of the open chapter
RemovesFromOpenChapter(z, name, outcome) ==
    LET done == dispatch_index_zone_request(z, DeleteRequest(name, FALSE),
                                            outcome)
    IN  /\ done.mutation = "remove"
        /\ done.mutation_result = UDS_SUCCESS
        /\ done.location = LOC_IN_OPEN_CHAPTER

\* C29: the assertion in remove never fails: in every state reachable
\* through INDEX, UPDATE, QUERY and DELETE requests and chapter advances,
\* whenever DELETE removes a master-index record (collision or confirmed
\* non-collision) whose chapter is the open chapter, the name is in the
\* zone's open chapter at that moment.
C29_RemoveAssertionHolds ==
    /\ \A name \in Names, outcome \in MasterIndexOutcomes :
           /\ RemovesFromOpenChapter(ZoneView, name, outcome) =>
                  name \in openChapter
           /\ \A requeued \in BOOLEAN :
                  dispatch_index_zone_request(ZoneView,
                      DeleteRequest(name, requeued), outcome).result
                      # UDS_ASSERTION_FAILED
    /\ \A e \in master_index :
           (e.collision /\ e.chapter = zone.newestVirtualChapter) =>
               e.name \in openChapter

\* C29 witness: two names of one address are in the open chapter, one by a
\* collision record; the DELETE of each removes a record of the open
\* chapter, the second without confirmation
C29_Witness ==
    \E n1, n2 \in Names :
        /\ n1 # n2
        /\ getMasterIndexRecord(master_index, n1).isCollision
        /\ ~getMasterIndexRecord(master_index, n2).isCollision
        /\ RemovesFromOpenChapter(ZoneView, n1, UDS_SUCCESS)
        /\ RemovesFromOpenChapter(ZoneView, n2, UDS_SUCCESS)

(***************************************************************************)
(* The resume of a VDO (vdoResume.c).  perform_vdo_resume hands            *)
(* resume_callback to the admin completion, whose sub-task completion      *)
(* calls it once per phase on the thread get_thread_id_for_phase names;    *)
(* an error of a sub-task is kept in the admin completion and the          *)
(* operation goes on (preserve_error_and_continue).                        *)
(***************************************************************************)
\* mutant: every phase is run on the admin thread
get_thread_id_for_phase_admin(p) == AdminThread

\* lines 61-76
get_thread_id_for_phase(p) ==
    IF p = RESUME_PHASE_JOURNAL THEN JournalZoneThread
    ELSE IF p = RESUME_PHASE_PACKER THEN PackerZoneThread
    ELSE AdminThread

\* a completion keeps the first result that is not success
set_completion_result(old, new) == IF old = VDO_SUCCESS THEN new ELSE old

\* an operation may start in a quiescent admin state only
start_resuming(state) == state = ADMIN_STATE_SUSPENDED

\* an admin state that is operating goes to the state that follows
finish_resuming_with_result(state) ==
    IF state = ADMIN_STATE_RESUMING THEN ADMIN_STATE_NORMAL_OPERATION
    ELSE state

\* mutant: a clean VDO is made dirty but its super block is not saved
write_super_block_unsaved(state) ==
    IF state \in {VDO_CLEAN, VDO_NEW}
    THEN [vdo_state |-> VDO_DIRTY, does |-> "complete_completion",
          result |-> VDO_SUCCESS]
    ELSE IF state \in {VDO_DIRTY, VDO_READ_ONLY_MODE, VDO_FORCE_REBUILD,
                       VDO_RECOVERING, VDO_REBUILD_FOR_UPGRADE}
    THEN [vdo_state |-> state, does |-> "complete_completion",
          result |-> VDO_SUCCESS]
    ELSE [vdo_state |-> state, does |-> "finish_completion",
          result |-> UDS_BAD_STATE]

\* lines 84-107: the state the VDO gets and what is done with the completion
write_super_block(state) ==
    IF state \in {VDO_CLEAN, VDO_NEW}
    THEN [vdo_state |-> VDO_DIRTY, does |-> "save_vdo_components_async",
          result |-> VDO_SUCCESS]
    ELSE IF state \in {VDO_DIRTY, VDO_READ_ONLY_MODE, VDO_FORCE_REBUILD,
                       VDO_RECOVERING, VDO_REBUILD_FOR_UPGRADE}
    THEN [vdo_state |-> state, does |-> "complete_completion",
          result |-> VDO_SUCCESS]
    ELSE [vdo_state |-> state, does |-> "finish_completion",
          result |-> UDS_BAD_STATE]

\* lines 133-160: what the phase hands the reset sub-task completion to
PhaseSubTask(p) ==
    IF p = RESUME_PHASE_ALLOW_READ_ONLY_MODE THEN "allow_read_only_mode_entry"
    ELSE IF p = RESUME_PHASE_DEPOT THEN "resume_slab_depot"
    ELSE IF p = RESUME_PHASE_JOURNAL THEN "resume_recovery_journal"
    ELSE IF p = RESUME_PHASE_BLOCK_MAP THEN "resume_block_map"
    ELSE IF p = RESUME_PHASE_LOGICAL_ZONES THEN "resume_logical_zones"
    ELSE IF p = RESUME_PHASE_PACKER THEN "resume_packer"
    ELSE "none"

Components ==
    {"resume_slab_depot", "resume_recovery_journal", "resume_block_map",
     "resume_logical_zones", "resume_packer"}

\* lines 114-170: the switch on the phase, the phase already incremented
\* when reset_admin_sub_task takes the thread of the phase to come
resume_callback(p, astate, vstate, thread, code) ==
    IF p = RESUME_PHASE_START
    THEN IF start_resuming(astate)
         THEN LET w == write_super_block(vstate)
              IN  [does |-> w.does, admin_state |-> ADMIN_STATE_RESUMING,
                   vdo_state |-> w.vdo_state, thread |-> thread,
                   result |-> set_completion_result(code, w.result)]
         ELSE [does |-> "refused", admin_state |-> astate,
               vdo_state |-> vstate, thread |-> thread, result |-> code]
    ELSE IF PhaseSubTask(p) # "none"
    THEN [does |-> PhaseSubTask(p), admin_state |-> astate,
          vdo_state |-> vstate,
          thread |-> get_thread_id_for_phase(p + 1), result |-> VDO_SUCCESS]
    ELSE [does |-> "finish_resuming_with_result",
          admin_state |-> finish_resuming_with_result(astate),
          vdo_state |-> vstate,
          thread |-> IF p = RESUME_PHASE_END THEN thread
                     ELSE get_thread_id_for_phase(p + 1),
          result |-> IF p = RESUME_PHASE_END THEN code ELSE UDS_BAD_STATE]

\* lines 173-180: the admin operation starts at phase 0, its callback
\* enqueued on the thread of that phase
PerformVdoResume ==
    /\ admin_pc = "idle"
    /\ admin_pc' = "callback"
    /\ phase' = RESUME_PHASE_START
    /\ callback_thread_id' = get_thread_id_for_phase(RESUME_PHASE_START)
    /\ completion_result' = VDO_SUCCESS
    /\ admin_result' = VDO_SUCCESS
    /\ UNCHANGED <<admin_state, vdo_state, super_block, sub_task, phases_run,
                   resumed>>
    /\ UNCHANGED <<indexVars, loadVars, saveVars, pageVars>>

\* lines 114-170: one call of resume_callback
ResumeCallback ==
    /\ admin_pc = "callback"
    /\ LET step == resume_callback(phase, admin_state, vdo_state,
                                   callback_thread_id, completion_result)
       IN  /\ phase' = phase + 1
           /\ phases_run' = Append(phases_run,
                                   [phase |-> phase,
                                    thread |-> callback_thread_id])
           /\ admin_state' = step.admin_state
           /\ vdo_state' = step.vdo_state
           /\ callback_thread_id' = step.thread
           /\ completion_result' = step.result
           /\ sub_task' = step.does
           /\ admin_pc' =
                  IF step.does \in {"refused", "finish_resuming_with_result"}
                  THEN "returned"
                  ELSE IF step.does \in {"complete_completion",
                                         "finish_completion"}
                  THEN "completed"
                  ELSE "sub_task"
           /\ admin_result' =
                  IF step.does = "refused"
                  THEN set_completion_result(admin_result,
                                             VDO_INVALID_ADMIN_STATE)
                  ELSE IF step.does = "finish_resuming_with_result"
                  THEN set_completion_result(admin_result, step.result)
                  ELSE admin_result
    /\ UNCHANGED <<super_block, resumed>>
    /\ UNCHANGED <<indexVars, loadVars, saveVars, pageVars>>

SubTaskResults == {VDO_SUCCESS, VDO_READ_ONLY}

\* the sub-task the completion was handed to finishes it, with success or
\* with an error; a save that succeeds has written the super block, a
\* resume that succeeds has resumed its component
SubTaskFinishes ==
    /\ admin_pc = "sub_task"
    /\ \E code \in SubTaskResults :
           /\ completion_result' = set_completion_result(completion_result,
                                                         code)
           /\ super_block' =
                  IF (sub_task = "save_vdo_components_async")
                         /\ (code = VDO_SUCCESS)
                  THEN [state |-> vdo_state, saves |-> super_block.saves + 1]
                  ELSE super_block
           /\ resumed' = IF (sub_task \in Components) /\ (code = VDO_SUCCESS)
                         THEN resumed \cup {sub_task}
                         ELSE resumed
    /\ admin_pc' = "completed"
    /\ UNCHANGED <<phase, callback_thread_id, admin_state, vdo_state,
                   sub_task, admin_result, phases_run>>
    /\ UNCHANGED <<indexVars, loadVars, saveVars, pageVars>>

\* a completion that finished with success has its callback enqueued on
\* its callback thread
CompleteSubTask ==
    /\ admin_pc = "completed"
    /\ completion_result = VDO_SUCCESS
    /\ admin_pc' = "callback"
    /\ UNCHANGED <<phase, callback_thread_id, admin_state, vdo_state,
                   super_block, sub_task, completion_result, admin_result,
                   phases_run, resumed>>
    /\ UNCHANGED <<indexVars, loadVars, saveVars, pageVars>>

\* line 179: preserve_error_and_continue gives the error to the admin
\* completion, resets the sub-task completion and calls the callback
PreserveErrorAndContinue ==
    /\ admin_pc = "completed"
    /\ completion_result # VDO_SUCCESS
    /\ admin_result' = set_completion_result(admin_result, completion_result)
    /\ completion_result' = VDO_SUCCESS
    /\ admin_pc' = "callback"
    /\ UNCHANGED <<phase, callback_thread_id, admin_state, vdo_state,
                   super_block, sub_task, phases_run, resumed>>
    /\ UNCHANGED <<indexVars, loadVars, saveVars, pageVars>>

\* a VDO in any state, its admin state suspended or in normal operation
ResumeInit ==
    /\ geometry = DenseGeometry
    /\ zone_count = 1
    /\ master_index = {}
    /\ master_index_open = 0
    /\ oldest_virtual_chapter = 0
    /\ newest_virtual_chapter = 0
    /\ zone = setActiveChapters(0, 0)
    /\ openChapter = {}
    /\ volume = [p \in PhysicalChapters |-> {}]
    /\ sparseCache = <<>>
    /\ requests_changed = 0
    /\ pc = "ready"
    /\ load_type = LOAD_CREATE
    /\ load_context = INDEX_READY
    /\ lookupMode = LOOKUP_NORMAL
    /\ loaded_type = LOAD_CREATE
    /\ result = UDS_SUCCESS
    /\ last_checkpoint = NO_LAST_CHECKPOINT
    /\ has_saved_open_chapter = FALSE
    /\ replay = NoReplay
    /\ observed = NothingObserved
    /\ boundaries = NoBoundaries
    /\ faults = 0
    /\ mutex = "free"
    /\ waiter = "none"
    /\ prev_checkpoint = NO_LAST_CHECKPOINT
    /\ saved = NothingSaved
    /\ index_pages = CanonicalIndexPages
    /\ indexPageMap = NoIndexPageMap
    /\ admin_pc = "idle"
    /\ phase = RESUME_PHASE_START
    /\ callback_thread_id = AdminThread
    /\ admin_state \in {ADMIN_STATE_SUSPENDED, ADMIN_STATE_NORMAL_OPERATION}
    /\ vdo_state \in VdoStates
    /\ super_block = [state |-> vdo_state, saves |-> 0]
    /\ sub_task = "none"
    /\ completion_result = VDO_SUCCESS
    /\ admin_result = VDO_SUCCESS
    /\ phases_run = <<>>
    /\ resumed = {}

ResumeNext ==
    \/ PerformVdoResume
    \/ ResumeCallback
    \/ SubTaskFinishes
    \/ CompleteSubTask
    \/ PreserveErrorAndContinue

ResumeSpec == ResumeInit /\ [][ResumeNext]_vars

(***************************************************************************)
(* Properties of the resume of a VDO.                                      *)
(***************************************************************************)
\* the phases in their order, with the thread of each and what each hands
\* the sub-task completion to
ResumePhases ==
    <<[phase |-> RESUME_PHASE_START, thread |-> AdminThread,
       work |-> {"save_vdo_components_async", "complete_completion",
                 "finish_completion", "refused"}],
      [phase |-> RESUME_PHASE_ALLOW_READ_ONLY_MODE, thread |-> AdminThread,
       work |-> {"allow_read_only_mode_entry"}],
      [phase |-> RESUME_PHASE_DEPOT, thread |-> AdminThread,
       work |-> {"resume_slab_depot"}],
      [phase |-> RESUME_PHASE_JOURNAL, thread |-> JournalZoneThread,
       work |-> {"resume_recovery_journal"}],
      [phase |-> RESUME_PHASE_BLOCK_MAP, thread |-> AdminThread,
       work |-> {"resume_block_map"}],
      [phase |-> RESUME_PHASE_LOGICAL_ZONES, thread |-> AdminThread,
       work |-> {"resume_logical_zones"}],
      [phase |-> RESUME_PHASE_PACKER, thread |-> PackerZoneThread,
       work |-> {"resume_packer"}],
      [phase |-> RESUME_PHASE_END, thread |-> AdminThread,
       work |-> {"finish_resuming_with_result"}]>>

\* the phases run so far are the first phases of the order, each once, each
\* on its thread
RunInOrder(run) ==
    /\ Len(run) <= Len(ResumePhases)
    /\ \A i \in 1 .. Len(run) :
           /\ run[i].phase = ResumePhases[i].phase
           /\ run[i].thread = ResumePhases[i].thread

\* C30: a resume runs its phases in the order START, ALLOW_READ_ONLY_MODE,
\* DEPOT, JOURNAL, BLOCK_MAP, LOGICAL_ZONES, PACKER, END, each at most once
\* and each started only after the sub-task of the phase before it has
\* completed; JOURNAL runs on the journal zone thread, PACKER on the packer
\* zone thread, the others on the admin thread; the admin state finishes
\* resuming only in the END phase (or, with BAD_STATE, on a phase out of
\* range).
C30_ResumePhasesInOrder ==
    /\ [](/\ RunInOrder(phases_run)
          /\ phase = IF admin_pc = "idle" THEN RESUME_PHASE_START
                     ELSE Len(phases_run)
          /\ (phases_run # <<>>) =>
                 sub_task \in ResumePhases[Len(phases_run)].work
          /\ \A i \in 1 .. Len(ResumePhases) :
                 (ResumePhases[i].work \cap resumed # {}) =>
                     Len(phases_run) >= i)
    /\ [][(phases_run' # phases_run) =>
              /\ admin_pc = "callback"
              /\ phases_run' = Append(phases_run,
                                      [phase |-> phase,
                                       thread |-> callback_thread_id])
              /\ phase' = phase + 1]_vars
    /\ [][(admin_pc' = "callback") =>
              \/ admin_pc = "callback"
              \/ admin_pc = "idle" /\ phases_run = <<>>
              \/ admin_pc = "completed" /\ sub_task' = sub_task]_vars
    /\ [][(admin_pc' = "completed" /\ admin_pc # "completed") =>
              \/ admin_pc = "sub_task" /\ sub_task' = sub_task
              \/ /\ admin_pc = "callback"
                 /\ phase = RESUME_PHASE_START
                 /\ sub_task' \in {"complete_completion",
                                   "finish_completion"}]_vars
    /\ [][(admin_state = ADMIN_STATE_RESUMING
               /\ admin_state' # ADMIN_STATE_RESUMING) =>
              /\ phase = RESUME_PHASE_END
              /\ admin_pc = "callback"
              /\ admin_pc' = "returned"
              /\ admin_state' = ADMIN_STATE_NORMAL_OPERATION]_vars
    /\ [](\A p \in (RESUME_PHASE_END + 1) .. MaxPhase :
              LET step == resume_callback(p, admin_state, vdo_state,
                                          callback_thread_id,
                                          completion_result)
              IN  /\ step.does = "finish_resuming_with_result"
                  /\ step.result = UDS_BAD_STATE
                  /\ step.admin_state
                         = finish_resuming_with_result(admin_state))

\* C30 witness: a resume has run all eight phases, the journal on the
\* journal zone thread and the packer on the packer zone thread, every
\* component is resumed and the admin state has finished resuming
C30_Witness ==
    /\ admin_pc = "returned"
    /\ Len(phases_run) = Len(ResumePhases)
    /\ phases_run[RESUME_PHASE_JOURNAL + 1].thread = JournalZoneThread
    /\ phases_run[RESUME_PHASE_PACKER + 1].thread = PackerZoneThread
    /\ resumed = Components
    /\ admin_state = ADMIN_STATE_NORMAL_OPERATION
    /\ admin_result = VDO_SUCCESS

\* the START phase of a resume that was allowed to start
StartPhase ==
    /\ ResumeCallback
    /\ phase = RESUME_PHASE_START
    /\ start_resuming(admin_state)

\* the resume started on a VDO that was CLEAN or NEW: it has been made
\* DIRTY, and the super block holds the old state until the save succeeds
StartedClean ==
    /\ phases_run # <<>>
    /\ admin_state # ADMIN_STATE_SUSPENDED
    /\ vdo_state = VDO_DIRTY
    /\ \/ super_block.saves > 0
       \/ super_block.state \in {VDO_CLEAN, VDO_NEW}

\* what the START phase does, by the state of the VDO
StartPhaseByState ==
    [][StartPhase =>
          IF vdo_state \in {VDO_CLEAN, VDO_NEW}
          THEN /\ vdo_state' = VDO_DIRTY
               /\ sub_task' = "save_vdo_components_async"
               /\ admin_pc' = "sub_task"
               /\ resumed = {}
          ELSE IF vdo_state \in {VDO_DIRTY, VDO_READ_ONLY_MODE,
                                 VDO_FORCE_REBUILD, VDO_RECOVERING,
                                 VDO_REBUILD_FOR_UPGRADE}
          THEN /\ vdo_state' = vdo_state
               /\ completion_result' = VDO_SUCCESS
               /\ sub_task' = "complete_completion"
               /\ admin_pc' = "completed"
          ELSE /\ vdo_state' = vdo_state
               /\ completion_result' = UDS_BAD_STATE
               /\ sub_task' = "finish_completion"
               /\ admin_pc' = "completed"]_vars

\* the super block is written by the save of the START phase only, and
\* then holds DIRTY; a VDO that was not CLEAN or NEW keeps its state and
\* its super block; a VDO that was REPLAYING ends with BAD_STATE
SuperBlockWrittenForCleanOnly ==
    /\ [](/\ super_block.saves <= 1
          /\ (super_block.saves = 1) =>
                 /\ super_block.state = VDO_DIRTY
                 /\ vdo_state = VDO_DIRTY
          /\ (super_block.saves = 0 /\ ~StartedClean) =>
                 super_block.state = vdo_state
          /\ (vdo_state = VDO_REPLAYING /\ admin_pc = "returned"
                  /\ Len(phases_run) > 1) =>
                 admin_result = UDS_BAD_STATE
          /\ write_super_block("unknown")
                 = [vdo_state |-> "unknown", does |-> "finish_completion",
                    result |-> UDS_BAD_STATE])
    /\ [][(super_block' # super_block) =>
              /\ SubTaskFinishes
              /\ sub_task = "save_vdo_components_async"
              /\ phase = RESUME_PHASE_ALLOW_READ_ONLY_MODE
              /\ resumed = {}]_vars
    /\ [][(vdo_state' # vdo_state) =>
              /\ StartPhase
              /\ vdo_state \in {VDO_CLEAN, VDO_NEW}]_vars

\* C31 as stated: at the START phase of a resume that was allowed to
\* start, a VDO in state CLEAN or NEW is set to DIRTY and its super block
\* is saved before any component (depot, journal, block map, logical
\* zones, packer) is resumed; a VDO in state DIRTY, READ_ONLY_MODE,
\* FORCE_REBUILD, RECOVERING or REBUILD_FOR_UPGRADE keeps its state and no
\* super block is written; a VDO in state REPLAYING (or any unknown state)
\* gets the result BAD_STATE with its state unchanged and no super block
\* written.
C31_Original ==
    /\ StartPhaseByState
    /\ SuperBlockWrittenForCleanOnly
    /\ []((StartedClean /\ resumed # {}) => super_block.saves = 1)

\* C31, amended: as stated, but for a CLEAN or NEW VDO the save of the
\* super block is issued at the START phase and has ended, with success or
\* with an error, before any component is resumed; when it ended with an
\* error the super block still holds the old state, the error is the
\* result of the resume, and the components are resumed all the same.
C31_SuperBlockAtStart ==
    /\ StartPhaseByState
    /\ SuperBlockWrittenForCleanOnly
    /\ []((admin_pc = "sub_task" /\ sub_task = "save_vdo_components_async")
              => resumed = {})
    /\ []((StartedClean /\ phase > RESUME_PHASE_ALLOW_READ_ONLY_MODE) =>
              \/ super_block.saves = 1
              \/ /\ super_block.state \in {VDO_CLEAN, VDO_NEW}
                 /\ admin_result # VDO_SUCCESS)

\* C31 witness: a VDO that was CLEAN or NEW is DIRTY, its super block was
\* saved as DIRTY, and every component has been resumed after that
C31_Witness ==
    /\ StartedClean
    /\ super_block = [state |-> VDO_DIRTY, saves |-> 1]
    /\ resumed = Components
    /\ admin_pc = "returned"
    /\ admin_result = VDO_SUCCESS

====
